---- MODULE Spec2Model ----
(***************************************************************************)
(* Model of the multi-source aggregation core of precipapi:                *)
(*   backend/app/__init__.py              PrecipAPI (the Aggregator)       *)
(*   backend/app/base.py                  DataSourceConnector (interface)  *)
(*   backend/app/integrations/usgs/client.py   USGSConnector, USGSClient   *)
(*   backend/app/models/models.py         DataSource, request / response   *)
(*                                                                         *)
(* Encodings.  An optional value is a sequence: None is << >> and a present *)
(* value v is <<v>>.  Text that the code takes apart (station ids, names)  *)
(* is a sequence of one-character strings.  Latitude and longitude are     *)
(* integers in units of 1e-5 degree, distances integers in tenths of a     *)
(* mile.  Error messages (str(e)) are strings; "" is the empty message.    *)
(***************************************************************************)
EXTENDS Integers, Sequences, FiniteSets, TLC

None ==
  << >>

Some(v) ==
  <<v>>

\* Python truthiness of an optional number: None and 0 are falsy.
TruthyNum(o) ==
  o # None /\ o[1] # 0

\* Python truthiness of an optional string: None and "" are falsy.
TruthyStr(o) ==
  o # None /\ o[1] # ""

Range(s) ==
  { s[i] : i \in 1..Len(s) }

\* All sequences over S of length at most n.
SeqsUpTo(S, n) ==
  UNION { [1..k -> S] : k \in 0..n }

(***************************************************************************)
(* Text helpers: str.lower, str.strip, str.split(":", 1), string order.    *)
(***************************************************************************)
\* Code point of a character (Python compares str by code point).
Ord(c) ==
  CASE c = " " -> 32
    [] c = "0" -> 48
    [] c = "1" -> 49
    [] c = "7" -> 55
    [] c = ":" -> 58
    [] c = "A" -> 65
    [] c = "B" -> 66
    [] c = "a" -> 97
    [] c = "b" -> 98
    [] c = "d" -> 100
    [] c = "e" -> 101
    [] c = "g" -> 103
    [] c = "i" -> 105
    [] c = "m" -> 109
    [] c = "n" -> 110
    [] c = "o" -> 111
    [] c = "s" -> 115
    [] c = "t" -> 116
    [] c = "u" -> 117
    [] c = "w" -> 119

LowerChar(c) ==
  CASE c = "A" -> "a"
    [] c = "B" -> "b"
    [] OTHER -> c

\* str.lower()
Lower(s) ==
  [i \in 1..Len(s) |-> LowerChar(s[i])]

\* str.strip(): drop leading and trailing whitespace.
Strip(s) ==
  LET idx == { i \in 1..Len(s) : s[i] # " " }
  IN  IF idx = {} THEN << >>
      ELSE LET lo == CHOOSE i \in idx : \A j \in idx : i <= j
               hi == CHOOSE i \in idx : \A j \in idx : i >= j
           IN  SubSeq(s, lo, hi)

\* a < b for Python str: lexicographic on code points, a proper prefix is smaller.
StrLess(a, b) ==
  \E k \in 1..(Len(b)) :
     /\ \A j \in 1..(k-1) : j <= Len(a) /\ a[j] = b[j]
     /\ k - 1 <= Len(a)
     /\ \/ k = Len(a) + 1
        \/ k <= Len(a) /\ Ord(a[k]) < Ord(b[k])

\* station_id.rsplit(":", 1): the split made at the last ":" instead.
SplitLastColon(s) ==
  LET idx == { i \in 1..Len(s) : s[i] = ":" }
  IN  IF idx = {} THEN << s >>
      ELSE LET k == CHOOSE i \in idx : \A j \in idx : i >= j
           IN  << SubSeq(s, 1, k - 1), SubSeq(s, k + 1, Len(s)) >>

\* station_id.split(":", 1): one piece when there is no ":", else the text
\* before the first ":" and everything after it.
SplitFirstColon(s) ==
  LET idx == { i \in 1..Len(s) : s[i] = ":" }
  IN  IF idx = {} THEN << s >>
      ELSE LET k == CHOOSE i \in idx : \A j \in idx : i <= j
           IN  << SubSeq(s, 1, k - 1), SubSeq(s, k + 1, Len(s)) >>

(***************************************************************************)
(* models.py: DataSource enum (member name -> value).                      *)
(***************************************************************************)
DataSource ==
  {"USGS", "NOAA", "NWIS", "MESONET"}

DataSourceValue(m) ==
  CASE m = "USGS" -> <<"u", "s", "g", "s">>
    [] m = "NOAA" -> <<"n", "o", "a", "a">>
    [] m = "NWIS" -> <<"n", "w", "i", "s">>
    [] m = "MESONET" -> <<"m", "e", "s", "o", "n", "e", "t">>

\* DataSource(source_name): the members with that value (none: ValueError).
LookupDataSource(source_name) ==
  { m \in DataSource : DataSourceValue(m) = source_name }

(***************************************************************************)
(* Station data.  A connector search returns Station objects; the fields   *)
(* the Aggregator reads are kept.                                          *)
(***************************************************************************)
StationA ==
  [vendor_id |-> <<"0", "1">>, name |-> <<"A", "b">>,
   latitude |-> 3973920, longitude |-> -10499030, distance_miles |-> Some(31)]

\* Same place as StationA to 4 decimals, same name up to case and blanks.
StationADup ==
  [vendor_id |-> <<"0", "7">>, name |-> <<"a", "b", " ">>,
   latitude |-> 3973924, longitude |-> -10499034, distance_miles |-> Some(114)]

\* Same name as StationA at another place; it lies exactly on the search point.
StationZero ==
  [vendor_id |-> <<"1", "0">>, name |-> <<"A", "b">>,
   latitude |-> 3973800, longitude |-> -10499030, distance_miles |-> Some(0)]

\* No distance on file.
StationNoDist ==
  [vendor_id |-> <<"1", "1">>, name |-> <<"B">>,
   latitude |-> 4001500, longitude |-> -10527050, distance_miles |-> None]

\* As far away as StationA, with a smaller name.
StationTie ==
  [vendor_id |-> <<"7", "7">>, name |-> <<"A", "a">>,
   latitude |-> 3975000, longitude |-> -10500000, distance_miles |-> Some(31)]

StationUniverse ==
  {StationA, StationADup, StationZero, StationNoDist, StationTie}

\* Longest station list one connector search returns.
MaxStations ==
  2

\* The Station a connector of source m builds from the data d.
MkStation(m, d) ==
  [source |-> m, vendor_id |-> d.vendor_id, name |-> d.name,
   latitude |-> d.latitude, longitude |-> d.longitude,
   distance_miles |-> d.distance_miles]

(***************************************************************************)
(* PrecipAPI._deduplicate_stations and its helpers.                        *)
(***************************************************************************)
\* round(x, 4) of a coordinate given in units of 1e-5 degree; the result is in
\* units of 1e-4 degree.  A tie goes to the even neighbour.
Round4(x) ==
  LET q == x \div 10
      r == x % 10
  IN  IF r < 5 THEN q
      ELSE IF r > 5 THEN q + 1
      ELSE IF q % 2 = 0 THEN q ELSE q + 1

\* The key with the name lower-cased but not stripped.
DedupKeyNoStrip(st) ==
  << Round4(st.latitude), Round4(st.longitude), Lower(st.name) >>

\* key = (round(latitude, 4), round(longitude, 4), name.lower().strip())
DedupKey(st) ==
  << Round4(st.latitude), Round4(st.longitude), Strip(Lower(st.name)) >>

\* A loop that keeps the last station of each key instead of the first.
RECURSIVE UniqueByKeyLast(_, _)
UniqueByKeyLast(stations, seen) ==
  IF stations = << >> THEN << >>
  ELSE LET st == Head(stations)
           rest == Tail(stations)
       IN  IF \E j \in 1..Len(rest) : DedupKey(rest[j]) = DedupKey(st)
           THEN UniqueByKeyLast(rest, seen)
           ELSE << st >> \o UniqueByKeyLast(rest, seen)

\* The loop of _deduplicate_stations: keep a station when its key is not seen yet.
RECURSIVE UniqueByKey(_, _)
UniqueByKey(stations, seen) ==
  IF stations = << >> THEN << >>
  ELSE LET st == Head(stations)
           key == DedupKey(st)
       IN  IF key \notin seen
           THEN << st >> \o UniqueByKey(Tail(stations), seen \cup {key})
           ELSE UniqueByKey(Tail(stations), seen)

\* sort_key(s) = (s.distance_miles or float("inf"), s.name)
SortKey(st) ==
  [inf |-> ~TruthyNum(st.distance_miles),
   dist |-> IF TruthyNum(st.distance_miles) THEN st.distance_miles[1] ELSE 0,
   name |-> st.name]

\* Tuple order of two sort keys.
SortKeyLess(a, b) ==
  \/ ~a.inf /\ b.inf
  \/ ~a.inf /\ ~b.inf /\ a.dist < b.dist
  \/ a.inf = b.inf /\ a.dist = b.dist /\ StrLess(a.name, b.name)

\* sorted(unique, key=sort_key): a stable sort.
RECURSIVE SortedByKey(_)
SortedByKey(stations) ==
  IF stations = << >> THEN << >>
  ELSE LET front == SortedByKey(SubSeq(stations, 1, Len(stations) - 1))
           x == stations[Len(stations)]
           k == Cardinality({ i \in 1..Len(front) :
                                ~SortKeyLess(SortKey(x), SortKey(front[i])) })
       IN  SubSeq(front, 1, k) \o << x >> \o SubSeq(front, k + 1, Len(front))

DeduplicateStations(stations) ==
  SortedByKey(UniqueByKey(stations, {}))

(***************************************************************************)
(* The connector registry and the requests.                                *)
(*                                                                         *)
(* AVAILABLE_CONNECTORS is a module-level table; as shipped it holds the   *)
(* USGS connector only, and the source extends it by adding entries.  The  *)
(* model runs the Aggregator on the table as shipped and on a table with   *)
(* two further connectors written to the DataSourceConnector interface of  *)
(* base.py.  impl tells how a connector defines its operations:            *)
(*   "coroutine"  with async def, as USGSConnector does: a call returns a  *)
(*                coroutine object and runs nothing until it is awaited;   *)
(*   "plain"      with def, as DataSourceConnector declares them: a call   *)
(*                runs the operation and returns its value.                *)
(***************************************************************************)
RegistryShipped ==
  [keys |-> <<"USGS">>, impl |-> [m \in {"USGS"} |-> "coroutine"]]

RegistryExtended ==
  [keys |-> <<"USGS", "NOAA", "NWIS">>,
   impl |-> [m \in {"USGS", "NOAA", "NWIS"} |->
               IF m = "USGS" THEN "coroutine" ELSE "plain"]]

Registries ==
  {RegistryShipped, RegistryExtended}

\* The sources argument of PrecipAPI(sources=...).
SourcesArgs ==
  {None, Some(<<"USGS">>), Some(<<"NOAA", "NWIS">>), Some(<<"NWIS", "NOAA">>),
   Some(<<"MESONET", "NOAA">>)}

\* The connector classes whose constructor raises.
CtorFailChoices ==
  {{}, {"USGS"}, {"NWIS"}}

\* StationSearchRequest.max_results default.
DefaultMaxResults ==
  100

\* The search point of test_find_precipitation_stations_denver (39.7392, -104.9903).
SearchLatitude ==
  3973920

SearchLongitude ==
  -10499030

Requests ==
  { r \in [latitude : {None, Some(0), Some(SearchLatitude)},
           longitude : {None, Some(SearchLongitude)},
           address : {None, Some(""), Some("Denver")},
           sources : {None, Some(<<"NOAA">>)},
           max_results : {1, DefaultMaxResults}] :
      \/ r.sources = None /\ r.max_results = DefaultMaxResults
      \/ r.latitude = Some(SearchLatitude) /\ r.longitude # None /\ r.address = None }

\* What a plain connector search can do: return a station list or raise.
\* "Exception" is any error derived from Exception, with its message str(e);
\* "BaseException" is one that is not (asyncio.CancelledError).
ErrorMessages ==
  {"", "boom"}

SearchBehaviours ==
  { [kind |-> "return", stations |-> l, msg |-> ""] : l \in SeqsUpTo(StationUniverse, MaxStations) }
  \cup { [kind |-> "Exception", stations |-> << >>, msg |-> e] : e \in ErrorMessages }
  \cup { [kind |-> "BaseException", stations |-> << >>, msg |-> "cancelled"] }

\* dict assignment d[k] = v
Put(d, k, v) ==
  [x \in DOMAIN d \cup {k} |-> IF x = k THEN v ELSE d[x]]

\* {**a, **b}
MergeDicts(a, b) ==
  [x \in DOMAIN a \cup DOMAIN b |-> IF x \in DOMAIN b THEN b[x] ELSE a[x]]

EmptyDict ==
  [x \in {} |-> ""]

Unknown ==
  <<"u", "n", "k", "n", "o", "w", "n">>

(***************************************************************************)
(* State.                                                                  *)
(***************************************************************************)
VARIABLES
  registry,    \* AVAILABLE_CONNECTORS
  connectors,  \* self.connectors: the active sources, in insertion order
  errors,      \* self.errors: source name -> initialization error
  pc,          \* "idle", "gather" (tasks created, join pending), "done"
  op,          \* the last call (at first the constructor's) and its arguments
  pending,     \* search_source tasks created and not yet run, in order
  results,     \* results of the tasks that ran, in gather order
  search,      \* per selected source: what became of the connector's search
  calls,       \* connector methods called so far, in order, with what they did
  upstream,    \* requests sent to the provider and its answers, in order
  locals,      \* find_stations locals at its end
  outcome      \* what the operation handed to its caller

vars ==
  <<registry, connectors, errors, pc, op, pending, results, search, calls, upstream, locals, outcome>>

NoOp ==
  [name |-> "none"]

NoOutcome ==
  [kind |-> "none"]

NoLocals ==
  [all_stations |-> << >>, unique_stations |-> << >>, errors_by_source |-> EmptyDict]

(***************************************************************************)
(* PrecipAPI.__init__                                                      *)
(***************************************************************************)
\* The loop over sources: an available source whose constructor succeeds
\* becomes an active connector (a dict keeps the first insertion position).
RECURSIVE BuildConnectors(_, _, _, _)
BuildConnectors(sources, reg, failing, acc) ==
  IF sources = << >> THEN acc
  ELSE LET m == Head(sources)
       IN  IF m \in DOMAIN reg.impl /\ m \notin failing /\ m \notin Range(acc)
           THEN BuildConnectors(Tail(sources), reg, failing, Append(acc, m))
           ELSE BuildConnectors(Tail(sources), reg, failing, acc)

RECURSIVE BuildErrors(_, _, _, _)
BuildErrors(sources, reg, failing, acc) ==
  IF sources = << >> THEN acc
  ELSE LET m == Head(sources)
       IN  IF m \in DOMAIN reg.impl
           THEN IF m \in failing
                THEN BuildErrors(Tail(sources), reg, failing,
                                 Put(acc, DataSourceValue(m), "Failed to initialize"))
                ELSE BuildErrors(Tail(sources), reg, failing, acc)
           ELSE BuildErrors(Tail(sources), reg, failing,
                            Put(acc, DataSourceValue(m), "Connector not available"))

\* The source names given to create_precipapi(sources=...).
SourceNamesArgs ==
  { None,
    Some(<< <<"n", "o", "a", "a">> >>),
    Some(<< <<"u", "s", "g", "s">>, <<"d", "e", "m", "o">> >>) }

\* The ways an Aggregator is made: PrecipAPI(sources) with DataSource
\* members, or create_precipapi(sources) with source names.
ConstructorCalls ==
  { [name |-> "PrecipAPI", sources |-> arg] : arg \in SourcesArgs }
  \cup { [name |-> "create_precipapi", sources |-> arg] : arg \in SourceNamesArgs }

\* create_precipapi: [DataSource(s) for s in sources] if sources else None;
\* DataSource(s) raises ValueError for a name that is no member's value.
CreatePrecipapi(sources) ==
  IF sources = None \/ sources[1] = << >>
  THEN [raised |-> FALSE, source_enums |-> None]
  ELSE IF \E i \in 1..Len(sources[1]) : LookupDataSource(sources[1][i]) = {}
  THEN [raised |-> TRUE, exc |-> "ValueError"]
  ELSE [raised |-> FALSE,
        source_enums |-> Some([i \in 1..Len(sources[1]) |->
                                 CHOOSE m \in LookupDataSource(sources[1][i]) : TRUE])]

\* The state after the constructor call; op holds the call.  When
\* create_precipapi raises there is no Aggregator to operate on.
Init ==
  \E reg \in Registries, call \in ConstructorCalls, failing \in CtorFailChoices :
     LET made == IF call.name = "create_precipapi"
                 THEN CreatePrecipapi(call.sources)
                 ELSE [raised |-> FALSE, source_enums |-> call.sources]
         sources == IF made.raised THEN << >>
                    ELSE IF made.source_enums = None THEN reg.keys
                    ELSE made.source_enums[1]
     IN  /\ registry = reg
         /\ connectors = BuildConnectors(sources, reg, failing, << >>)
         /\ errors = BuildErrors(sources, reg, failing, EmptyDict)
         /\ pc = (IF made.raised THEN "done" ELSE "idle")
         /\ op = [name |-> call.name, sources |-> call.sources, failing |-> failing]
         /\ pending = << >>
         /\ results = << >>
         /\ search = << >>
         /\ calls = << >>
         /\ upstream = << >>
         /\ locals = NoLocals
         /\ outcome = (IF made.raised THEN [kind |-> "raise", exc |-> made.exc]
                       ELSE NoOutcome)

(***************************************************************************)
(* PrecipAPI.find_stations                                                 *)
(***************************************************************************)
\* A validation that rejects an empty address only.
RequestRejectedEmptyAddress(req) ==
  ~TruthyNum(req.latitude) /\ req.address = Some("")

\* The validation at the top of find_stations.
RequestRejected(req) ==
  ~TruthyNum(req.latitude) /\ ~TruthyStr(req.address)

\* request.sources is truthy: given and not empty.
SourcesGiven(req) ==
  req.sources # None /\ req.sources[1] # << >>

\* A selection that ignores request.sources.
ActiveConnectorsAll(req) ==
  connectors

\* active_connectors: all connectors, or those named in request.sources.
ActiveConnectors(req) ==
  IF SourcesGiven(req)
  THEN SelectSeq(connectors, LAMBDA m : m \in Range(req.sources[1]))
  ELSE connectors

\* Entry of find_stations up to the creation of the tasks.
FindStationsCall(req) ==
  /\ pc = "idle"
  /\ op' = [name |-> "find_stations", request |-> req]
  /\ results' = << >>
  /\ calls' = << >>
  /\ locals' = NoLocals
  /\ IF RequestRejected(req)
     THEN /\ pc' = "done"
          /\ outcome' = [kind |-> "raise", exc |-> "ValueError"]
          /\ pending' = << >>
          /\ search' = << >>
     ELSE /\ pc' = "gather"
          /\ outcome' = NoOutcome
          /\ pending' = ActiveConnectors(req)
          /\ search' = [m \in Range(ActiveConnectors(req)) |-> [status |-> "created"]]
  /\ UNCHANGED <<registry, connectors, errors, upstream>>

\* Which connector method search_source goes for.
SearchMode(req) ==
  IF req.latitude # None /\ req.longitude # None THEN "find_stations_by_coordinates"
  ELSE IF req.address = None THEN "none"
  ELSE "find_stations_by_address"

\* One search_source task, run from start to end (it holds no await).
\* The tasks run in the order gather() was given them.
SearchSource ==
  /\ pc = "gather"
  /\ pending # << >>
  /\ LET m == Head(pending)
         req == op.request
         mode == SearchMode(req)
     IN  /\ pending' = Tail(pending)
         /\ IF mode = "none"
            THEN \* raise ValueError("Address must be provided ..."), caught below
                 /\ calls' = calls
                 /\ search' = [search EXCEPT ![m] = [status |-> "not_called"]]
                 /\ results' = Append(results,
                       [kind |-> "tuple", source |-> m, coroutine |-> FALSE,
                        stations |-> << >>, error |-> Some("Address must be provided")])
            ELSE /\ IF registry.impl[m] = "coroutine"
                    THEN \* the call is not awaited: stations is the coroutine object
                         /\ calls' = Append(calls, [source |-> m, method |-> mode, arg |-> << >>,
                                                    result |-> [kind |-> "coroutine"]])
                         /\ search' = [search EXCEPT ![m] = [status |-> "never_run"]]
                         /\ results' = Append(results,
                               [kind |-> "tuple", source |-> m, coroutine |-> TRUE,
                                stations |-> << >>, error |-> None])
                    ELSE \E b \in SearchBehaviours :
                            LET sts == [i \in 1..Len(b.stations) |-> MkStation(m, b.stations[i])]
                            IN  /\ calls' = Append(calls, [source |-> m, method |-> mode, arg |-> << >>,
                                                           result |-> [kind |-> b.kind]])
                                /\ CASE b.kind = "return" ->
                                        /\ search' = [search EXCEPT ![m] =
                                                        [status |-> "returned", stations |-> sts]]
                                        /\ results' = Append(results,
                                              [kind |-> "tuple", source |-> m, coroutine |-> FALSE,
                                               stations |-> sts, error |-> None])
                                     [] b.kind = "Exception" ->
                                        /\ search' = [search EXCEPT ![m] =
                                                        [status |-> "failed", msg |-> b.msg]]
                                        /\ results' = Append(results,
                                              [kind |-> "tuple", source |-> m, coroutine |-> FALSE,
                                               stations |-> << >>, error |-> Some(b.msg)])
                                     [] b.kind = "BaseException" ->
                                        /\ search' = [search EXCEPT ![m] =
                                                        [status |-> "failed", msg |-> b.msg]]
                                        /\ results' = Append(results,
                                              [kind |-> "exception", source |-> m, msg |-> b.msg])
  /\ UNCHANGED <<registry, connectors, errors, pc, op, upstream, locals, outcome>>

\* The loop over the gathered results.  extend() of a coroutine object raises
\* TypeError and ends find_stations.
RECURSIVE ProcessLoop(_, _)
ProcessLoop(rs, acc) ==
  IF rs = << >> THEN acc
  ELSE LET r == Head(rs)
       IN  IF r.kind = "exception"
           THEN ProcessLoop(Tail(rs),
                  [acc EXCEPT !.errors_by_source = Put(@, Unknown, r.msg)])
           ELSE IF TruthyStr(r.error)
           THEN ProcessLoop(Tail(rs),
                  [acc EXCEPT !.errors_by_source = Put(@, DataSourceValue(r.source), r.error[1])])
           ELSE IF r.coroutine
           THEN [acc EXCEPT !.exc = Some("TypeError")]
           ELSE ProcessLoop(Tail(rs),
                  [acc EXCEPT !.all_stations = @ \o r.stations])

\* unique_stations[: request.max_results] when max_results is truthy
ApplyLimit(stations, max_results) ==
  IF max_results # 0 /\ Len(stations) > max_results
  THEN SubSeq(stations, 1, max_results)
  ELSE stations

\* total_count of the response: len() of the list that is returned.
TotalCount(unique, limited) ==
  Len(limited)

\* gather() has every task's result: merge, deduplicate, limit, respond.
ProcessResults ==
  /\ pc = "gather"
  /\ pending = << >>
  /\ LET req == op.request
         acc == ProcessLoop(results,
                  [all_stations |-> << >>, errors_by_source |-> EmptyDict, exc |-> None])
         unique == DeduplicateStations(acc.all_stations)
         limited == ApplyLimit(unique, req.max_results)
     IN  IF acc.exc # None
         THEN /\ outcome' = [kind |-> "raise", exc |-> acc.exc[1]]
              /\ locals' = [all_stations |-> acc.all_stations, unique_stations |-> << >>,
                            errors_by_source |-> acc.errors_by_source]
         ELSE /\ outcome' = [kind |-> "response",
                             stations |-> limited,
                             total_count |-> TotalCount(unique, limited),
                             search_location |-> [latitude |-> req.latitude,
                                                  longitude |-> req.longitude,
                                                  address |-> req.address],
                             errors_by_source |-> MergeDicts(errors, acc.errors_by_source)]
              /\ locals' = [all_stations |-> acc.all_stations, unique_stations |-> unique,
                            errors_by_source |-> acc.errors_by_source]
  /\ pc' = "done"
  /\ UNCHANGED <<registry, connectors, errors, op, pending, results, search, calls, upstream>>

(***************************************************************************)
(* USGSClient: the tabular site listing request.                           *)
(***************************************************************************)
\* USGSClient.BASE_URL + "/site/"
SiteUrl ==
  "https://waterservices.usgs.gov/nwis/site/"

\* What the upstream does with one /site/ request: the transport times out,
\* fails otherwise (httpx.ConnectError), or answers with a status and the
\* data rows of its listing.  A data row is kept as the parser reads its
\* columns: the coordinates as numbers (0 for a column that is empty or
\* missing), the altitude (tenths of a foot) as a number or None.
SiteRows ==
  { [site_no |-> <<"0", "1">>, station_nm |-> <<"A", "b">>,
     dec_lat_va |-> 3973920, dec_long_va |-> -10499030, alt_va |-> Some(52800)],
    [site_no |-> <<"0", ":", "1">>, station_nm |-> <<"B">>,
     dec_lat_va |-> 4001500, dec_long_va |-> -10527050, alt_va |-> None],
    [site_no |-> << >>, station_nm |-> <<"A", "a">>,
     dec_lat_va |-> 3975000, dec_long_va |-> -10500000, alt_va |-> Some(52800)],
    [site_no |-> <<"1", "0">>, station_nm |-> <<"A", "a">>,
     dec_lat_va |-> 0, dec_long_va |-> -10500000, alt_va |-> None] }

\* Longest upstream site listing.
MaxRows ==
  2

StatusCodes ==
  {200, 400, 404, 500, 503}

SiteUpstreams ==
  { [kind |-> "timeout", status |-> 0, rows |-> << >>],
    [kind |-> "connect_error", status |-> 0, rows |-> << >>] }
  \cup { [kind |-> "response", status |-> c, rows |-> << >>] : c \in StatusCodes \ {200} }
  \cup { [kind |-> "response", status |-> 200, rows |-> l] : l \in SeqsUpTo(SiteRows, MaxRows) }

\* USGSClient._request_text: the text of the answer, or the error raised.
\* An httpx error other than a timeout is not caught here.
RequestText(up) ==
  IF up.kind = "timeout"
  THEN [raised |-> TRUE, exc |-> "USGSTimeoutError", usgs |-> TRUE, msg |-> "Timeout 30s: " \o SiteUrl]
  ELSE IF up.kind = "connect_error"
  THEN [raised |-> TRUE, exc |-> "ConnectError", usgs |-> FALSE, msg |-> "connection failed"]
  ELSE IF up.status = 404
  THEN [raised |-> TRUE, exc |-> "USGSNotFoundError", usgs |-> TRUE, msg |-> "Resource not found: " \o SiteUrl]
  ELSE IF up.status >= 500
  THEN [raised |-> TRUE, exc |-> "USGSServerError", usgs |-> TRUE, msg |-> "Server error: " \o SiteUrl]
  ELSE IF up.status >= 400
  THEN [raised |-> TRUE, exc |-> "USGSException", usgs |-> TRUE, msg |-> "Client error: " \o SiteUrl]
  ELSE [raised |-> FALSE, rows |-> up.rows]

\* geodesic(p, q).miles in tenths of a mile, coordinates in 1e-5 degree.  The
\* ellipsoidal distance is replaced by 69 miles per degree along both axes; it
\* is 0 for equal points and positive otherwise.
Abs(x) ==
  IF x < 0 THEN -x ELSE x

GeodesicTenths(lat1, lon1, lat2, lon2) ==
  ((Abs(lat1 - lat2) + Abs(lon1 - lon2)) * 69) \div 10000

\* The data-row loop of _parse_rdb_sites_response: a row with a zero
\* coordinate or an empty site number gives no record.
RECURSIVE ParseRows(_, _, _)
ParseRows(rows, search_lat, search_lon) ==
  IF rows = << >> THEN << >>
  ELSE LET row == Head(rows)
           rest == ParseRows(Tail(rows), search_lat, search_lon)
       IN  IF row.dec_lat_va = 0 \/ row.dec_long_va = 0 THEN rest
           ELSE IF row.site_no = << >> THEN rest
           ELSE << [site_no |-> row.site_no, site_name |-> row.station_nm,
                    latitude |-> row.dec_lat_va, longitude |-> row.dec_long_va,
                    elevation_ft |-> row.alt_va,
                    available_parameters |-> << >>,
                    distance_miles |-> Some(GeodesicTenths(search_lat, search_lon,
                                                           row.dec_lat_va, row.dec_long_va))] >>
                \o rest

\* stations.sort(key=lambda s: s.distance_miles or float("inf")): a stable sort.
DistanceKeyLess(a, b) ==
  /\ TruthyNum(a.distance_miles)
  /\ \/ ~TruthyNum(b.distance_miles)
     \/ a.distance_miles[1] < b.distance_miles[1]

RECURSIVE SortedByDistance(_)
SortedByDistance(stations) ==
  IF stations = << >> THEN << >>
  ELSE LET front == SortedByDistance(SubSeq(stations, 1, Len(stations) - 1))
           x == stations[Len(stations)]
           k == Cardinality({ i \in 1..Len(front) : ~DistanceKeyLess(x, front[i]) })
       IN  SubSeq(front, 1, k) \o << x >> \o SubSeq(front, k + 1, Len(front))

ParseRdbSitesResponse(rows, search_lat, search_lon) ==
  SortedByDistance(ParseRows(rows, search_lat, search_lon))

(***************************************************************************)
(* USGSConnector: get_station_info and the Station conversion.             *)
(***************************************************************************)
\* USGSConnector.name()
USGSName ==
  <<"u", "s", "g", "s">>

\* USGSParameterCode values probed by _get_available_parameters, and what the
\* probe can find; the probe swallows every error.
AvailableChoices ==
  { << >>, <<"00060">>, <<"00060", "00045", "99999">> }

NormalizeParameterCode(code) ==
  CASE code = "00045" -> Some("precipitation")
    [] code = "00046" -> Some("precipitation")
    [] code = "00060" -> Some("streamflow")
    [] code = "00065" -> Some("gage_height")
    [] code = "00010" -> Some("temperature_water")
    [] code = "00020" -> Some("temperature_air")
    [] OTHER -> None

RECURSIVE NormalizeParameters(_)
NormalizeParameters(codes) ==
  IF codes = << >> THEN << >>
  ELSE NormalizeParameterCode(Head(codes)) \o NormalizeParameters(Tail(codes))

\* _convert_usgs_station_to_station: station_id = f"usgs:{site_no}"
ConvertUsgsStation(us) ==
  [station_id |-> <<"u", "s", "g", "s", ":">> \o us.site_no,
   source |-> "USGS",
   vendor_id |-> us.site_no,
   name |-> us.site_name,
   latitude |-> us.latitude,
   longitude |-> us.longitude,
   available_parameters |-> NormalizeParameters(us.available_parameters),
   distance_miles |-> us.distance_miles]

\* A test for "Not Found", which no lower-cased message holds.
MentionsNotFoundCapitalised(msg) ==
  msg = "Resource Not Found: " \o SiteUrl

\* "not found" in str(e).lower(), for the messages _request_text builds.
MentionsNotFound(msg) ==
  msg = "Resource not found: " \o SiteUrl

\* USGSConnector.get_station_info(station_id) for the upstream answer up and
\* the parameters avail found by the probe.
UsgsGetStationInfo(station_id, up, avail) ==
  LET resp == RequestText(up)
  IN  IF resp.raised
      THEN IF resp.usgs
           THEN IF MentionsNotFound(resp.msg)
                THEN [kind |-> "raise", exc |-> "StationNotFound"]
                ELSE [kind |-> "raise", exc |-> "DataSourceError"]
           ELSE [kind |-> "raise", exc |-> resp.exc]
      ELSE LET usgs_stations == ParseRdbSitesResponse(resp.rows, 0, 0)
           IN  IF usgs_stations = << >>
               THEN [kind |-> "raise", exc |-> "StationNotFound"]
               ELSE [kind |-> "return",
                     station |-> ConvertUsgsStation(
                        [usgs_stations[1] EXCEPT !.available_parameters = avail])]

(***************************************************************************)
(* PrecipAPI: the single-station operations.                               *)
(***************************************************************************)
\* _decode_station_id: the two pieces, or ValueError when there is no ":".
DecodeStationId(station_id) ==
  LET parts == SplitFirstColon(station_id)
  IN  IF Len(parts) = 2
      THEN [raised |-> FALSE, source_name |-> parts[1], vendor_id |-> parts[2]]
      ELSE [raised |-> TRUE, exc |-> "ValueError"]

\* get_station raising what the data operations raise for an inactive source.
GetStationInactiveErrorAsData ==
  "DataSourceError"

\* The error get_station raises for a known source without active connector.
GetStationInactiveError ==
  "StationNotFound"

\* The error get_precipitation_data raises in that case.
GetPrecipitationInactiveError ==
  "DataSourceError"

\* The error get_streamflow_data raises in that case.
GetStreamflowInactiveError ==
  "DataSourceError"

\* The steps the three operations share: decode, look the source up, find
\* its connector.  target is the source to delegate to when nothing is raised.
Dispatch(station_id, inactiveError) ==
  LET d == DecodeStationId(station_id)
  IN  IF d.raised THEN [raised |-> TRUE, exc |-> d.exc]
      ELSE IF LookupDataSource(d.source_name) = {}
      THEN [raised |-> TRUE, exc |-> "StationNotFound"]
      ELSE LET m == CHOOSE x \in LookupDataSource(d.source_name) : TRUE
           IN  IF m \notin Range(connectors)
               THEN [raised |-> TRUE, exc |-> inactiveError]
               ELSE [raised |-> FALSE, target |-> m, vendor_id |-> d.vendor_id]

\* await connector.method(...): a coroutine connector's call is awaited and
\* gives the operation's outcome; a plain connector's call runs the operation
\* at once, and awaiting the value it returned raises TypeError.
Await(impl, result) ==
  IF impl = "plain" /\ result.kind = "return"
  THEN [kind |-> "raise", exc |-> "TypeError"]
  ELSE result

\* What get_station_info of a plain connector can do.
PlainStationBehaviours ==
  { [kind |-> "return", station |-> MkStation("NOAA", StationA)],
    [kind |-> "raise", exc |-> "StationNotFound"],
    [kind |-> "raise", exc |-> "DataSourceError"] }

\* Station ids a caller passes in.
StationIds ==
  { <<"u", "s", "g", "s", ":", "0", "1">>,
    <<"u", "s", "g", "s", ":", "0", ":", "1">>,
    <<"u", "s", "g", "s", ":">>,
    <<"u", "s", "g", "s">>,
    <<"U", "S", "G", "S", ":", "0", "1">>,
    <<"n", "o", "a", "a", ":", "7">>,
    <<"n", "w", "i", "s", ":", "7", ":">>,
    <<"m", "e", "s", "o", "n", "e", "t", ":", "1">>,
    <<"d", "e", "m", "o", ":", "1">>,
    <<":", "1">> }

GetStation(station_id) ==
  /\ pc = "idle"
  /\ op' = [name |-> "get_station", station_id |-> station_id]
  /\ pc' = "done"
  /\ LET d == Dispatch(station_id, GetStationInactiveError)
     IN  IF d.raised
         THEN /\ calls' = << >>
              /\ upstream' = << >>
              /\ outcome' = [kind |-> "raise", exc |-> d.exc]
         ELSE IF registry.impl[d.target] = "coroutine"
         THEN \E up \in SiteUpstreams, avail \in AvailableChoices :
                 LET r == UsgsGetStationInfo(d.vendor_id, up, avail)
                 IN  /\ calls' = << [source |-> d.target, method |-> "get_station_info",
                                     arg |-> d.vendor_id, result |-> r] >>
                     /\ upstream' = << [path |-> "/site/", sites |-> d.vendor_id,
                                        answer |-> up] >>
                     /\ outcome' = Await("coroutine", r)
         ELSE \E b \in PlainStationBehaviours :
                 /\ calls' = << [source |-> d.target, method |-> "get_station_info",
                                 arg |-> d.vendor_id, result |-> b] >>
                 /\ upstream' = << >>
                 /\ outcome' = Await("plain", b)
  /\ UNCHANGED <<registry, connectors, errors, pending, results, search, locals>>

\* The measurement values a connector's data retrieval hands back.
MeasurementValues ==
  {None, Some(0), Some(125)}

\* Longest measurement list.
MaxMeasurements ==
  1

\* What get_precipitation_data / get_streamflow_data of a connector can do,
\* its exchange with the provider included: return measurements, raise
\* DataSourceError (provider failure or operation not supported), or let
\* another error through (a date that does not parse).
ConnectorDataBehaviours ==
  { [kind |-> "return", measurements |-> l] : l \in SeqsUpTo(MeasurementValues, MaxMeasurements) }
  \cup { [kind |-> "raise", exc |-> "DataSourceError"],
         [kind |-> "raise", exc |-> "ValueError"] }

\* DataResponse(...) around the connector's measurements.
MkDataResponse(station_id, parameter_type, source, r) ==
  IF r.kind = "return"
  THEN [kind |-> "return",
        response |-> [station_id |-> station_id,
                      parameter_type |-> parameter_type,
                      measurements |-> r.measurements,
                      total_count |-> Len(r.measurements),
                      metadata |-> [source |-> DataSourceValue(source)]]]
  ELSE r

GetPrecipitationData(station_id) ==
  /\ pc = "idle"
  /\ op' = [name |-> "get_precipitation_data", station_id |-> station_id]
  /\ pc' = "done"
  /\ LET d == Dispatch(station_id, GetPrecipitationInactiveError)
     IN  IF d.raised
         THEN /\ calls' = << >>
              /\ outcome' = [kind |-> "raise", exc |-> d.exc]
         ELSE \E b \in ConnectorDataBehaviours :
                 /\ calls' = << [source |-> d.target, method |-> "get_precipitation_data",
                                 arg |-> d.vendor_id, result |-> b] >>
                 /\ outcome' = MkDataResponse(station_id, "precipitation", d.target,
                                              Await(registry.impl[d.target], b))
  /\ UNCHANGED <<registry, connectors, errors, pending, results, search, upstream, locals>>

GetStreamflowData(station_id) ==
  /\ pc = "idle"
  /\ op' = [name |-> "get_streamflow_data", station_id |-> station_id]
  /\ pc' = "done"
  /\ LET d == Dispatch(station_id, GetStreamflowInactiveError)
     IN  IF d.raised
         THEN /\ calls' = << >>
              /\ outcome' = [kind |-> "raise", exc |-> d.exc]
         ELSE \E b \in ConnectorDataBehaviours :
                 /\ calls' = << [source |-> d.target, method |-> "get_streamflow_data",
                                 arg |-> d.vendor_id, result |-> b] >>
                 /\ outcome' = MkDataResponse(station_id, "streamflow", d.target,
                                              Await(registry.impl[d.target], b))
  /\ UNCHANGED <<registry, connectors, errors, pending, results, search, upstream, locals>>

Next ==
  \/ \E req \in Requests : FindStationsCall(req)
  \/ SearchSource
  \/ ProcessResults
  \/ \E station_id \in StationIds : GetStation(station_id)
  \/ \E station_id \in StationIds : GetPrecipitationData(station_id)
  \/ \E station_id \in StationIds : GetStreamflowData(station_id)

Spec ==
  Init /\ [][Next]_vars

(***************************************************************************)
(* Properties of find_stations.                                            *)
(***************************************************************************)
\* find_stations has ended (returned or raised) on a request it did not reject.
FindStationsEnded ==
  pc = "done" /\ op.name = "find_stations" /\ ~RequestRejected(op.request)

\* find_stations has returned a response.
FindStationsResponded ==
  pc = "done" /\ op.name = "find_stations" /\ outcome.kind = "response"

\* The selected connectors whose search failed.
FailedSources ==
  { m \in DOMAIN search : search[m].status = "failed" }

\* The stations the searches of the connectors in S returned.
StationsReturnedBy(S) ==
  UNION { Range(search[m].stations) : m \in { x \in S : search[x].status = "returned" } }

\* C1: when the searches of a non-empty set F of the selected connectors fail,
\* find_stations still returns a response; the response merges the stations of
\* the selected connectors outside F, and its fan-out errors have exactly one
\* entry per connector of F, keyed by the connector's source name.
C1_PartialFailureContract ==
  (FindStationsEnded /\ FailedSources # {}) =>
     /\ outcome.kind = "response"
     /\ Range(locals.all_stations) = StationsReturnedBy(DOMAIN search \ FailedSources)
     /\ DOMAIN locals.errors_by_source = { DataSourceValue(m) : m \in FailedSources }
     /\ (FailedSources = DOMAIN search => outcome.stations = << >>)

\* C2: find_stations ends only after the search of every selected connector
\* ran to completion (returned its list or failed), and what is merged for a
\* connector is the list its search returned.
C2_EverySearchCompletes ==
  FindStationsEnded =>
     /\ \A m \in DOMAIN search : search[m].status \in {"returned", "failed"}
     /\ \A i \in 1..Len(results) :
           (results[i].kind = "tuple" /\ results[i].error = None) =>
              /\ ~results[i].coroutine
              /\ search[results[i].source].status = "returned"
              /\ results[i].stations = search[results[i].source].stations

\* Two coordinates (1e-5 degree) have the same value to 4 decimals: some
\* multiple of 1e-4 degree is the nearest one to both.
SameTo4Decimals(x, y) ==
  \E q \in ((x \div 10) - 1)..((x \div 10) + 1) :
     /\ 2 * Abs(x - 10 * q) <= 10
     /\ 2 * Abs(y - 10 * q) <= 10
     /\ (2 * Abs(x - 10 * q) = 10 => q % 2 = 0)
     /\ (2 * Abs(y - 10 * q) = 10 => q % 2 = 0)

\* A name without its leading and trailing blanks.
RECURSIVE Trimmed(_)
Trimmed(s) ==
  IF s = << >> THEN s
  ELSE IF Head(s) = " " THEN Trimmed(Tail(s))
  ELSE IF s[Len(s)] = " " THEN Trimmed(SubSeq(s, 1, Len(s) - 1))
  ELSE s

\* Two characters are the same letter in either case.
SameLetter(c, d) ==
  \/ c = d
  \/ {c, d} \in {{"A", "a"}, {"B", "b"}}

\* Two names are equal up to case and surrounding blanks.
SameName(a, b) ==
  LET x == Trimmed(a)
      y == Trimmed(b)
  IN  Len(x) = Len(y) /\ \A i \in 1..Len(x) : SameLetter(x[i], y[i])

\* Two stations have the same deduplication key.
SameKey(s, t) ==
  /\ SameTo4Decimals(s.latitude, t.latitude)
  /\ SameTo4Decimals(s.longitude, t.longitude)
  /\ SameName(s.name, t.name)

\* a is the start of b.
IsPrefix(a, b) ==
  Len(a) <= Len(b) /\ a = SubSeq(b, 1, Len(a))

\* C3: in a response, merged stations collapse exactly when they have the same
\* key (latitude and longitude to 4 decimals, lower-cased trimmed name): no two
\* stations of the deduplicated list share a key, every merged station has
\* its key represented in that list, the list holds merged stations only, and
\* the stations returned are taken from the front of that list.
C3_DedupByKey ==
  FindStationsResponded =>
     LET merged == locals.all_stations
         unique == locals.unique_stations
     IN  /\ \A i, j \in 1..Len(unique) : SameKey(unique[i], unique[j]) => i = j
         /\ \A i \in 1..Len(merged) : \E j \in 1..Len(unique) : SameKey(merged[i], unique[j])
         /\ Range(unique) \subseteq Range(merged)
         /\ IsPrefix(outcome.stations, unique)

\* Witness of C3: a response whose merge held two stations of one key under
\* different spellings and two stations of one name at different places; the
\* first pair collapsed and the second was kept.
C3_Witness ==
  /\ FindStationsResponded
  /\ \E i, j \in 1..Len(locals.all_stations) :
        /\ i # j
        /\ SameKey(locals.all_stations[i], locals.all_stations[j])
        /\ locals.all_stations[i].name # locals.all_stations[j].name
  /\ \E i, j \in 1..Len(locals.unique_stations) :
        /\ i # j
        /\ locals.unique_stations[i].name = locals.unique_stations[j].name
  /\ Len(locals.unique_stations) < Len(locals.all_stations)

\* b may directly follow a in a response: by distance ascending, a missing
\* distance after every present one, equal distances by name ascending.
InResponseOrder(a, b) ==
  \/ a.distance_miles # None /\ b.distance_miles = None
  \/ a.distance_miles # None /\ b.distance_miles # None
       /\ a.distance_miles[1] < b.distance_miles[1]
  \/ a.distance_miles = b.distance_miles /\ ~StrLess(b.name, a.name)

\* C4: in a response, consecutive stations are ordered by distance ascending,
\* stations without a distance come after all stations with one (so a station
\* at distance 0 comes first), and equal distances are ordered by name.
C4_ResponseOrdered ==
  FindStationsResponded =>
     \A i \in 1..(Len(outcome.stations) - 1) :
        InResponseOrder(outcome.stations[i], outcome.stations[i + 1])

\* C5: total_count is the length of the deduplicated list before the cut to
\* max_results; when that list is longer than max_results, total_count
\* exceeds the number of stations returned, which are its first max_results.
C5_TotalCountBeforeLimit ==
  FindStationsResponded =>
     LET unique == locals.unique_stations
         cap == op.request.max_results
     IN  /\ outcome.total_count = Len(unique)
         /\ (Len(unique) > cap =>
               /\ outcome.total_count > Len(outcome.stations)
               /\ outcome.stations = SubSeq(unique, 1, cap))

\* The request names no latitude, no longitude and no address.
NoLocationGiven(req) ==
  req.latitude = None /\ req.longitude = None /\ req.address = None

\* C6: find_stations on a request with neither coordinates nor address raises
\* ValueError (the invalid-request error) with no connector called, no task
\* run and no response built.
C6_NoLocationRejected ==
  (op.name = "find_stations" /\ NoLocationGiven(op.request)) =>
     /\ pc = "done"
     /\ outcome = [kind |-> "raise", exc |-> "ValueError"]
     /\ calls = << >>
     /\ results = << >>
     /\ DOMAIN search = {}

\* Witness of C6: such a request has been made and was rejected.
C6_Witness ==
  /\ op.name = "find_stations"
  /\ NoLocationGiven(op.request)
  /\ outcome.kind = "raise"

(***************************************************************************)
(* Properties of the single-station operations.                            *)
(***************************************************************************)
\* The positions of ":" in a station id.
ColonPositions(id) ==
  { i \in 1..Len(id) : id[i] = ":" }

\* The text before the first ":" of an id that has one.
BeforeFirstColon(id) ==
  LET k == CHOOSE i \in ColonPositions(id) : \A j \in ColonPositions(id) : i <= j
  IN  [i \in 1..(k - 1) |-> id[i]]

\* The text after the first ":" of an id that has one.
AfterFirstColon(id) ==
  LET k == CHOOSE i \in ColonPositions(id) : \A j \in ColonPositions(id) : i <= j
  IN  [i \in 1..(Len(id) - k) |-> id[k + i]]

\* get_station has ended and a connector handed it a Station.
StationReturnedByConnector ==
  /\ pc = "done"
  /\ op.name = "get_station"
  /\ calls # << >>
  /\ calls[1].result.kind = "return"

\* C7: the station_id of a Station the USGS connector returns is the
\* connector's canonical name, ":" and the vendor id, and decoding it (one
\* split on the first ":") gives back the source name and the vendor id, also
\* when the vendor id holds ":".
C7_StationIdRoundTrip ==
  (StationReturnedByConnector /\ calls[1].source = "USGS") =>
     LET st == calls[1].result.station
         d == DecodeStationId(st.station_id)
     IN  /\ st.station_id = USGSName \o <<":">> \o st.vendor_id
         /\ DataSourceValue(st.source) = USGSName
         /\ ~d.raised
         /\ d.source_name = DataSourceValue(st.source)
         /\ d.vendor_id = st.vendor_id

\* Witness of C7: the USGS connector returned a station whose vendor id holds ":".
C7_Witness ==
  /\ StationReturnedByConnector
  /\ calls[1].source = "USGS"
  /\ ColonPositions(calls[1].result.station.vendor_id) # {}

\* The sources whose value is the text before the first ":" and that have an
\* active connector.
ActiveSourceOf(id) ==
  { m \in Range(connectors) : DataSourceValue(m) = BeforeFirstColon(id) }

\* C8: get_station raises ValueError (invalid request) for an id without ":",
\* raises StationNotFound when the text before the first ":" is no source tag
\* or the tag of a source without active connector, and otherwise calls
\* get_station_info of that source's connector, and no other connector, with
\* the text after the first ":" unchanged.
C8_GetStationDispatch ==
  (pc = "done" /\ op.name = "get_station") =>
     LET id == op.station_id
     IN  IF ColonPositions(id) = {}
         THEN outcome = [kind |-> "raise", exc |-> "ValueError"] /\ calls = << >>
         ELSE IF ActiveSourceOf(id) = {}
         THEN outcome = [kind |-> "raise", exc |-> "StationNotFound"] /\ calls = << >>
         ELSE /\ Len(calls) = 1
              /\ calls[1].source \in ActiveSourceOf(id)
              /\ calls[1].method = "get_station_info"
              /\ calls[1].arg = AfterFirstColon(id)

\* Witness of C8: get_station delegated an id whose vendor part holds ":".
C8_Witness ==
  /\ pc = "done"
  /\ op.name = "get_station"
  /\ Len(calls) = 1
  /\ ColonPositions(calls[1].arg) # {}

\* C9: get_precipitation_data and get_streamflow_data end as get_station
\* would for the same id: the same error kind for an id without ":", for an
\* unknown source tag and for a source without active connector, and
\* otherwise a call of the matching operation of that source's connector.
C9_DataDispatchLikeGetStation ==
  (pc = "done" /\ op.name \in {"get_precipitation_data", "get_streamflow_data"}) =>
     LET g == Dispatch(op.station_id, GetStationInactiveError)
     IN  IF g.raised
         THEN outcome = [kind |-> "raise", exc |-> g.exc] /\ calls = << >>
         ELSE /\ Len(calls) = 1
              /\ calls[1].source = g.target
              /\ calls[1].method = op.name
              /\ calls[1].arg = g.vendor_id

\* The provider reports no matching record: status 404, or a listing without rows.
NoMatchingRecord(up) ==
  /\ up.kind = "response"
  /\ \/ up.status = 404
     \/ up.status = 200 /\ up.rows = << >>

\* C10: when the provider reports no matching record for a single-station
\* lookup, the connector's get_station_info raises StationNotFound and the
\* caller of get_station receives StationNotFound.
C10_NotFoundPassedThrough ==
  (pc = "done" /\ op.name = "get_station" /\ upstream # << >>
     /\ NoMatchingRecord(upstream[1].answer)) =>
     /\ calls[1].result = [kind |-> "raise", exc |-> "StationNotFound"]
     /\ outcome = [kind |-> "raise", exc |-> "StationNotFound"]

\* Witness of C10: the provider answered 404 to a lookup that get_station delegated.
C10_Witness ==
  /\ pc = "done"
  /\ op.name = "get_station"
  /\ upstream # << >>
  /\ upstream[1].answer.kind = "response"
  /\ upstream[1].answer.status = 404
  /\ outcome.kind = "raise"

(***************************************************************************)
(* USGSClient: the series request (/iv/) and the fetches built on it.      *)
(*                                                                         *)
(* An instant (datetime) is an integer number of seconds, a measurement    *)
(* value an integer number of tenths.  A period token is a record: enum    *)
(* tells whether it is a USGSTimePeriod member (a str subclass) or a plain *)
(* str, text is its content as a str.  The raw "value" of a value entry of *)
(* the JSON body is null or a string, tagged by t.                         *)
(***************************************************************************)
\* USGSClient.BASE_URL + "/iv/"
IvUrl ==
  "https://waterservices.usgs.gov/nwis/iv/"

\* USGSTimePeriod.LAST_DAY.value
LastDay ==
  [enum |-> FALSE, text |-> "P1D"]

\* USGSTimePeriod.LAST_WEEK.value
LastWeekValue ==
  [enum |-> FALSE, text |-> "P7D"]

\* USGSTimePeriod.LAST_MONTH.value
LastMonth ==
  [enum |-> FALSE, text |-> "P1M"]

\* USGSTimePeriod.LAST_3_MONTHS.value
Last3Months ==
  [enum |-> FALSE, text |-> "P3M"]

\* USGSDefaults.DEFAULT_PERIOD: the member USGSTimePeriod.LAST_WEEK itself.
DefaultPeriod ==
  [enum |-> TRUE, text |-> "P7D"]

\* str(x): Enum.__str__ of a member gives "Class.MEMBER", not its value.
PyStr(period) ==
  IF period.enum
  THEN [enum |-> FALSE,
        text |-> CASE period.text = "P7D" -> "USGSTimePeriod.LAST_WEEK"
                   [] OTHER -> "USGSTimePeriod." \o period.text]
  ELSE period

\* Truthiness of an optional period: None and "" are falsy.
TruthyPeriod(o) ==
  o # None /\ o[1].text # ""

\* datetime.strftime("%Y-%m-%dT%H:%M"): the instant to the minute; the text
\* is kept as the number of whole minutes.
Strftime(instant) ==
  instant \div 60

RawNull ==
  [t |-> "null", s |-> << >>, n |-> 0]

RawStr(s) ==
  [t |-> "str", s |-> s, n |-> 0]

\* A value that is already a float (n tenths).
RawNum(n) ==
  [t |-> "num", s |-> << >>, n |-> n]

\* The raw values the upstream sends.
RawValues ==
  { RawNull,
    RawStr(<< >>),
    RawStr(<<"a", "b", "c">>),
    RawStr(<<"1", "2", ".", "5">>),
    RawStr(<<"0">>),
    RawStr(<<"0", ".", "0">>),
    RawStr(<<" ", "-", "7">>),
    RawStr(<<"1", ".", "2", ".", "5">>) }

\* Longest list of value entries in one value group.
MaxValues ==
  1

\* Value of a decimal digit; -1 for any other character.
DigitValue(c) ==
  CASE c = "0" -> 0 [] c = "1" -> 1 [] c = "2" -> 2 [] c = "3" -> 3
    [] c = "4" -> 4 [] c = "5" -> 5 [] c = "6" -> 6 [] c = "7" -> 7
    [] c = "8" -> 8 [] c = "9" -> 9 [] OTHER -> -1

RECURSIVE DigitsValue(_)
DigitsValue(s) ==
  IF s = << >> THEN 0
  ELSE DigitsValue(SubSeq(s, 1, Len(s) - 1)) * 10 + DigitValue(s[Len(s)])

\* float(s) of a str, in tenths: blanks around the text are dropped, then an
\* optional sign, digits, and at most one point with digits; anything else
\* raises ValueError (None here).  Digits after the first decimal are beyond
\* the unit of the model.
PyFloat(s) ==
  LET t == Strip(s)
      signed == t # << >> /\ t[1] \in {"+", "-"}
      body == IF signed THEN Tail(t) ELSE t
      points == { i \in 1..Len(body) : body[i] = "." }
      p == IF points = {} THEN Len(body) + 1 ELSE CHOOSE i \in points : TRUE
      whole == SubSeq(body, 1, p - 1)
      frac == SubSeq(body, p + 1, Len(body))
      tenths == DigitsValue(whole) * 10 + (IF frac = << >> THEN 0 ELSE DigitValue(frac[1]))
  IN  IF \/ Cardinality(points) > 1
         \/ whole \o frac = << >>
         \/ \E i \in 1..Len(whole) : DigitValue(whole[i]) < 0
         \/ \E i \in 1..Len(frac) : DigitValue(frac[i]) < 0
      THEN None
      ELSE Some(IF signed /\ t[1] = "-" THEN -tenths ELSE tenths)

\* A parse that turns a missing value into 0.
UsgsParseValueOrZero(v) ==
  IF v.t = "null" \/ v.s = << >> THEN Some(0) ELSE PyFloat(v.s)

\* parse_value of the measurement models of integrations/usgs/models.py, on
\* a raw JSON value.
UsgsParseValue(v) ==
  IF v.t = "null" THEN None
  ELSE IF v.t = "num" THEN Some(v.n)
  ELSE IF v.s = << >> THEN None
  ELSE PyFloat(v.s)

\* Measurement.parse_value of models/models.py.
ParseValue(v) ==
  IF v.t = "null" THEN None
  ELSE IF v.t = "num" THEN Some(v.n)
  ELSE IF v.s = << >> THEN None
  ELSE PyFloat(v.s)

\* The "dateTime" text of a value entry, by its parts: whether the entry has
\* one, whether its date and time are well formed, the instant they spell
\* (seconds), and what follows them: "Z", an offset (seconds east of UTC), or
\* nothing.
DateTimeZ ==
  [given |-> TRUE, valid |-> TRUE, local |-> 3600, suffix |-> "Z", offset |-> 0]

DateTimeOffset ==
  [given |-> TRUE, valid |-> TRUE, local |-> 7200, suffix |-> "offset", offset |-> -25200]

DateTimeNaive ==
  [given |-> TRUE, valid |-> TRUE, local |-> 10800, suffix |-> "", offset |-> 0]

DateTimeGarbage ==
  [given |-> TRUE, valid |-> FALSE, local |-> 0, suffix |-> "", offset |-> 0]

DateTimeMissing ==
  [given |-> FALSE, valid |-> FALSE, local |-> 0, suffix |-> "", offset |-> 0]

\* One entry of a "value" array: {"value": ..., "dateTime": ...}.
ValueEntry(v, d) ==
  [value |-> v, dateTime |-> d]

\* The entries of the upstream's usual answers: every raw value, timed in UTC.
ValueEntries ==
  { ValueEntry(v, DateTimeZ) : v \in RawValues }

\* One time-series entry of the body: its site, its unit, and its value
\* groups; a group has a "value" array or lacks it.
TimeSeriesUniverse ==
  { [site_no |-> <<"0", "1">>, unit |-> "in",
     values |-> << [has_value |-> TRUE, value |-> l] >>] : l \in SeqsUpTo(ValueEntries, MaxValues) }
  \cup { [site_no |-> <<"0", "1">>, unit |-> "in",
          values |-> << [has_value |-> FALSE, value |-> << >>] >>] }

\* Value groups of answers that nest more: no "value" key, an empty array,
\* and arrays whose entries are timed in the ways above.
NestedGroups ==
  { [has_value |-> FALSE, value |-> << >>],
    [has_value |-> TRUE, value |-> << >>],
    [has_value |-> TRUE, value |-> << ValueEntry(RawStr(<<"1", "2", ".", "5">>), DateTimeZ) >>],
    [has_value |-> TRUE, value |-> << ValueEntry(RawStr(<<"0">>), DateTimeOffset),
                                      ValueEntry(RawStr(<<"1", "2", ".", "5">>), DateTimeGarbage) >>],
    [has_value |-> TRUE, value |-> << ValueEntry(RawStr(<<"1", "2", ".", "5">>), DateTimeNaive),
                                      ValueEntry(RawNull, DateTimeOffset) >>],
    [has_value |-> TRUE, value |-> << ValueEntry(RawStr(<<"0">>), DateTimeMissing) >>] }

\* Most value groups in one time-series entry.
MaxGroups ==
  2

\* Bodies with two time-series entries of different sites and units.
NestedBodies ==
  { << [site_no |-> <<"0", "1">>, unit |-> "in", values |-> g],
       [site_no |-> <<"0", "2">>, unit |-> "ft3/s", values |-> h] >> :
      g \in SeqsUpTo(NestedGroups, MaxGroups),
      h \in { << [has_value |-> TRUE,
                  value |-> << ValueEntry(RawStr(<<"0">>), DateTimeZ) >>] >>,
              << [has_value |-> FALSE, value |-> << >>],
                 [has_value |-> TRUE,
                  value |-> << ValueEntry(RawStr(<<"1", "2", ".", "5">>), DateTimeOffset),
                               ValueEntry(RawStr(<< >>), DateTimeZ) >>] >> } }

\* Most time-series entries in one body.
MaxSeries ==
  1

\* What the upstream does with one /iv/ request: the transport times out,
\* fails otherwise (httpx.ConnectError), or answers with a status and a body:
\* text that is no JSON, JSON that does not fit the response model, or a
\* well-formed body with its time-series entries.
IvUpstreams ==
  { [kind |-> "timeout", status |-> 0, body |-> "none", series |-> << >>],
    [kind |-> "connect_error", status |-> 0, body |-> "none", series |-> << >>] }
  \cup { [kind |-> "response", status |-> c, body |-> "none", series |-> << >>] :
           c \in StatusCodes \ {200} }
  \cup { [kind |-> "response", status |-> 200, body |-> b, series |-> << >>] :
           b \in {"invalid_json", "schema_invalid"} }
  \cup { [kind |-> "response", status |-> 200, body |-> "ok", series |-> l] :
           l \in SeqsUpTo(TimeSeriesUniverse, MaxSeries) \cup NestedBodies }

\* USGSClient._request_json: the decoded body, or the error raised.  An
\* httpx error other than a timeout is not caught here.
RequestJson(up) ==
  IF up.kind = "timeout"
  THEN [raised |-> TRUE, exc |-> "USGSTimeoutError", usgs |-> TRUE, msg |-> "Timeout 30s: " \o IvUrl]
  ELSE IF up.kind = "connect_error"
  THEN [raised |-> TRUE, exc |-> "ConnectError", usgs |-> FALSE, msg |-> "connection failed"]
  ELSE IF up.status = 404
  THEN [raised |-> TRUE, exc |-> "USGSNotFoundError", usgs |-> TRUE, msg |-> "Resource not found: " \o IvUrl]
  ELSE IF up.status >= 500
  THEN [raised |-> TRUE, exc |-> "USGSServerError", usgs |-> TRUE, msg |-> "Server error: " \o IvUrl]
  ELSE IF up.status >= 400
  THEN [raised |-> TRUE, exc |-> "USGSException", usgs |-> TRUE, msg |-> "Client error: " \o IvUrl]
  ELSE IF up.body = "invalid_json"
  THEN [raised |-> TRUE, exc |-> "USGSException", usgs |-> TRUE, msg |-> "Invalid JSON response: " \o IvUrl]
  ELSE [raised |-> FALSE, body |-> up.body, series |-> up.series]

\* The params get_instantaneous_values builds from its time arguments.
IvParams(start_date, end_date, period) ==
  IF TruthyPeriod(period)
  THEN [period |-> period, startDT |-> None, endDT |-> None]
  ELSE IF start_date # None /\ end_date # None
  THEN [period |-> None, startDT |-> Some(Strftime(start_date[1])),
        endDT |-> Some(Strftime(end_date[1]))]
  ELSE [period |-> Some(PyStr(DefaultPeriod)), startDT |-> None, endDT |-> None]

\* USGSClient.get_instantaneous_values for the upstream answer up: the
\* request it sent, and the response model or the error raised.
\* USGSInstantaneousValuesResponse(**response_data) raises pydantic's
\* ValidationError on a body that does not fit.
GetInstantaneousValues(start_date, end_date, period, up) ==
  LET params == IvParams(start_date, end_date, period)
      resp == RequestJson(up)
  IN  [sent |-> [path |-> "/iv/", params |-> params, answer |-> up],
       request |-> resp,
       result |-> IF resp.raised THEN [raised |-> TRUE, exc |-> resp.exc, usgs |-> resp.usgs]
                  ELSE IF resp.body = "schema_invalid"
                  THEN [raised |-> TRUE, exc |-> "ValidationError", usgs |-> FALSE]
                  ELSE [raised |-> FALSE, time_series |-> resp.series]]

\* The timestamp field of a measurement model (pydantic's datetime parsing)
\* given value_data.get("dateTime"): a text with "Z" or an offset gives an
\* aware datetime, a text with neither a naive one; None stands for the
\* ValidationError raised on a missing entry and on any other text.
ParseTimestamp(d) ==
  IF ~d.given \/ ~d.valid THEN None
  ELSE Some([instant |-> d.local - d.offset, aware |-> d.suffix # ""])

\* A loop body that reads the first entry of a "value" array only.
GroupMeasurementsFirstOnly(ts, group) ==
  IF group.has_value /\ group.value # << >>
  THEN << [site_no |-> ts.site_no, unit |-> ts.unit,
           value |-> UsgsParseValue(group.value[1].value),
           timestamp |-> ParseTimestamp(group.value[1].dateTime)] >>
  ELSE << >>

\* The measurements of one value group: one per entry of its "value" array.
\* A timestamp of None marks an entry whose model could not be built.
GroupMeasurements(ts, group) ==
  IF group.has_value
  THEN [i \in 1..Len(group.value) |->
          [site_no |-> ts.site_no, unit |-> ts.unit,
           value |-> UsgsParseValue(group.value[i].value),
           timestamp |-> ParseTimestamp(group.value[i].dateTime)]]
  ELSE << >>

RECURSIVE GroupsMeasurements(_, _)
GroupsMeasurements(ts, groups) ==
  IF groups = << >> THEN << >>
  ELSE GroupMeasurements(ts, Head(groups)) \o GroupsMeasurements(ts, Tail(groups))

\* The loops of USGSClient.get_precipitation_data / get_streamflow_data.
RECURSIVE SeriesMeasurements(_)
SeriesMeasurements(series) ==
  IF series = << >> THEN << >>
  ELSE GroupsMeasurements(Head(series), Head(series).values)
       \o SeriesMeasurements(Tail(series))

\* USGSClient.get_precipitation_data / get_streamflow_data: period is the
\* period argument after its default (USGSDefaults.DEFAULT_PERIOD).  The
\* ValidationError of a measurement that cannot be built ends the loops.
ClientGetSeries(start_date, end_date, period, up) ==
  LET iv == GetInstantaneousValues(start_date, end_date, period, up)
  IN  [sent |-> iv.sent,
       request |-> iv.request,
       result |-> IF iv.result.raised THEN iv.result
                  ELSE LET measurements == SeriesMeasurements(iv.result.time_series)
                       IN  IF \E i \in 1..Len(measurements) : measurements[i].timestamp = None
                           THEN [raised |-> TRUE, exc |-> "ValidationError", usgs |-> FALSE]
                           ELSE [raised |-> FALSE, measurements |-> measurements]]

(***************************************************************************)
(* USGSClient: the spatial searches.                                       *)
(***************************************************************************)
\* abs(math.cos(math.radians(latitude))) in thousandths, by whole degree of
\* the latitudes the model searches at.
CosThousandths(latitude) ==
  LET deg == Abs(latitude) \div 100000
  IN  CASE deg = 39 -> 772
        [] deg = 40 -> 766
        [] OTHER -> 1000

\* The bBox parameter of get_sites_by_coordinates (1e-5 degree; radius in
\* tenths of a mile): 69 miles to the degree of latitude.
BoundingBox(latitude, longitude, radius_miles) ==
  LET lat_delta == (radius_miles * 10000) \div 69
      lon_delta == (radius_miles * 100000) \div ((69 * CosThousandths(latitude)) \div 100)
  IN  [west |-> longitude - lon_delta, south |-> latitude - lat_delta,
       east |-> longitude + lon_delta, north |-> latitude + lat_delta]

\* No filtering: every parsed station is kept.
FilterNothing(stations, radius_miles) ==
  stations

\* The distance filter of get_sites_by_coordinates.
FilterByDistance(stations, radius_miles) ==
  SelectSeq(stations, LAMBDA s : s.distance_miles # None /\ s.distance_miles[1] <= radius_miles)

\* USGSClient.get_sites_by_coordinates for the upstream answer up.
GetSitesByCoordinates(latitude, longitude, radius_miles, up) ==
  LET resp == RequestText(up)
      sent == [path |-> "/site/",
               params |-> [bBox |-> BoundingBox(latitude, longitude, radius_miles)],
               answer |-> up]
  IN  IF resp.raised
      THEN [sent |-> << sent >>, request |-> << resp >>, parsed |-> << >>,
            result |-> [raised |-> TRUE, exc |-> resp.exc, usgs |-> resp.usgs]]
      ELSE LET stations == ParseRdbSitesResponse(resp.rows, latitude, longitude)
           IN  [sent |-> << sent >>, request |-> << resp >>, parsed |-> stations,
                result |-> [raised |-> FALSE,
                            stations |-> FilterByDistance(stations, radius_miles)]]

\* What geolocator.geocode(address) can do: find nothing (None), find a
\* location, or fail (the geocoding service is a network call of geopy).
GeocodeOutcomes ==
  { [kind |-> "none", latitude |-> 0, longitude |-> 0],
    [kind |-> "error", latitude |-> 0, longitude |-> 0],
    [kind |-> "found", latitude |-> 3973900, longitude |-> -10499000] }

\* USGSClient.get_sites_by_address: no request is sent unless the address
\* was geocoded.
GetSitesByAddress(address, radius_miles, geo, up) ==
  IF geo.kind = "error"
  THEN [sent |-> << >>, request |-> << >>, parsed |-> << >>,
        result |-> [raised |-> TRUE, exc |-> "GeocoderServiceError", usgs |-> FALSE]]
  ELSE IF geo.kind = "none"
  THEN [sent |-> << >>, request |-> << >>, parsed |-> << >>,
        result |-> [raised |-> TRUE, exc |-> "USGSException", usgs |-> TRUE]]
  ELSE LET r == GetSitesByCoordinates(geo.latitude, geo.longitude, radius_miles, up)
       IN  IF r.result.raised THEN r
           ELSE [r EXCEPT !.result =
                   [raised |-> FALSE, stations |-> r.result.stations,
                    location_info |-> [address |-> address, latitude |-> geo.latitude,
                                       longitude |-> geo.longitude]]]

(***************************************************************************)
(* USGSConnector: the searches and the series retrieval.                   *)
(***************************************************************************)
\* The conversion loop of the two searches: avail[i] is what the probe of
\* _get_available_parameters found for the i-th station.
ConvertStations(usgs_stations, avail) ==
  [i \in 1..Len(usgs_stations) |->
     ConvertUsgsStation([usgs_stations[i] EXCEPT !.available_parameters = avail[i]])]

\* USGSConnector.find_stations_by_coordinates: every error becomes
\* DataSourceError (except USGSException, then except Exception).
UsgsFindStationsByCoordinates(latitude, longitude, radius_miles, up, avail) ==
  LET r == GetSitesByCoordinates(latitude, longitude, radius_miles, up)
  IN  IF r.result.raised
      THEN [kind |-> "raise", exc |-> "DataSourceError"]
      ELSE [kind |-> "return", stations |-> ConvertStations(r.result.stations, avail)]

\* USGSConnector.find_stations_by_address: only USGSException is caught;
\* location_info is dropped.
UsgsFindStationsByAddress(address, radius_miles, geo, up, avail) ==
  LET r == GetSitesByAddress(address, radius_miles, geo, up)
  IN  IF r.result.raised
      THEN IF r.result.usgs
           THEN [kind |-> "raise", exc |-> "DataSourceError"]
           ELSE [kind |-> "raise", exc |-> r.result.exc]
      ELSE [kind |-> "return", stations |-> ConvertStations(r.result.stations, avail)]

\* delta.days of end - start (instants in seconds): floor division.
DeltaDays(start_dt, end_dt) ==
  IF end_dt >= start_dt THEN (end_dt - start_dt) \div 86400
  ELSE -(((start_dt - end_dt) + 86399) \div 86400)

\* USGSConnector._interval_to_period on parsed dates.
IntervalToPeriod(start_dt, end_dt) ==
  LET days == DeltaDays(start_dt, end_dt)
  IN  IF days <= 1 THEN LastDay
      ELSE IF days <= 7 THEN LastWeekValue
      ELSE IF days <= 30 THEN LastMonth
      ELSE Last3Months

\* value=float(m.value) if m.value else None, then Measurement.parse_value.
ConvertUsgsMeasurement(m) ==
  [station_id |-> <<"u", "s", "g", "s", ":">> \o m.site_no,
   source |-> "USGS",
   vendor_id |-> m.site_no,
   unit |-> m.unit,
   timestamp |-> m.timestamp,
   value |-> IF TruthyNum(m.value) THEN ParseValue(RawNum(m.value[1])) ELSE ParseValue(RawNull)]

\* The connector's part of a series retrieval after the fetch r of the
\* client: a USGSException becomes DataSourceError, any other exception
\* passes, and every measurement fetched is converted.
UsgsConvertSeries(r) ==
  [sent |-> << r.sent >>, request |-> << r.request >>,
   result |-> IF r.result.raised
              THEN IF r.result.usgs
                   THEN [kind |-> "raise", exc |-> "DataSourceError"]
                   ELSE [kind |-> "raise", exc |-> r.result.exc]
              ELSE [kind |-> "return",
                    measurements |->
                      [i \in 1..Len(r.result.measurements) |->
                         ConvertUsgsMeasurement(r.result.measurements[i])]]]

\* USGSConnector.get_precipitation_data / get_streamflow_data: start_date and
\* end_date are the parsed date strings, None for a string fromisoformat
\* rejects (ValueError, raised inside the try and not caught by it).
UsgsGetSeries(start_date, end_date, up) ==
  IF start_date = None \/ end_date = None
  THEN [sent |-> << >>, request |-> << >>, result |-> [kind |-> "raise", exc |-> "ValueError"]]
  ELSE CHOOSE answer \in
              { UsgsConvertSeries(r) :
                  r \in {ClientGetSeries(None, None,
                                         Some(IntervalToPeriod(start_date[1], end_date[1])), up)} } :
         TRUE

(***************************************************************************)
(* The USGS connector and its client operated directly, as the routers and *)
(* the tests of integrations/usgs do: one operation on a fresh object.     *)
(* calls keeps the exchanges of _request_text / _request_json and the      *)
(* parser's output, upstream the requests sent.                            *)
(***************************************************************************)
\* radius_miles: USGSDefaults.DEFAULT_RADIUS_MILES (25.0) and the default of
\* get_sites_by_coordinates (50), in tenths of a mile.
Radii ==
  {250, 500}

\* Site numbers asked for directly.
SiteNumbers ==
  { <<"0", "1">>, <<"0", ":", "1">> }

\* One choice of probe results per position of a station list.
AvailableByPosition ==
  [1..MaxRows -> AvailableChoices]

\* The date arguments of a series retrieval, parsed: None is a string that
\* fromisoformat rejects.
DateRanges ==
  { [start_date |-> None, end_date |-> Some(0)],
    [start_date |-> Some(0), end_date |-> Some(0)],
    [start_date |-> Some(0), end_date |-> Some(3 * 86400 + 30)],
    [start_date |-> Some(0), end_date |-> Some(40 * 86400)] }

\* start_date / end_date of a client fetch.
Instants ==
  {None, Some(90), Some(8 * 86400 + 30)}

\* The period argument of get_instantaneous_values.
PeriodArgs ==
  {None, Some(LastDay)}

\* The period argument of get_precipitation_data / get_streamflow_data of the
\* client: left out (the default applies), or passed.
ClientPeriodArgs ==
  { [given |-> FALSE, value |-> None],
    [given |-> TRUE, value |-> None],
    [given |-> TRUE, value |-> Some(LastDay)] }

\* The exchanges of one operation, for calls.
RequestLog(method, sent, request) ==
  [i \in 1..Len(request) |->
     [source |-> "USGSClient", method |-> method,
      answer |-> sent[i].answer, result |-> request[i]]]

ConnectorFindStationsByCoordinates ==
  /\ pc = "idle"
  /\ \E radius_miles \in Radii, up \in SiteUpstreams, avail \in AvailableByPosition :
        LET r == GetSitesByCoordinates(SearchLatitude, SearchLongitude, radius_miles, up)
        IN  /\ op' = [name |-> "find_stations_by_coordinates", level |-> "connector",
                      latitude |-> SearchLatitude, longitude |-> SearchLongitude,
                      radius_miles |-> radius_miles, geo |-> [kind |-> "unused"]]
            /\ upstream' = r.sent
            /\ calls' = RequestLog("_request_text", r.sent, r.request)
            /\ locals' = [parsed |-> r.parsed]
            /\ outcome' = UsgsFindStationsByCoordinates(SearchLatitude, SearchLongitude,
                                                        radius_miles, up, avail)
  /\ pc' = "done"
  /\ UNCHANGED <<registry, connectors, errors, pending, results, search>>

ConnectorFindStationsByAddress ==
  /\ pc = "idle"
  /\ \E radius_miles \in Radii, geo \in GeocodeOutcomes, up \in SiteUpstreams,
        avail \in AvailableByPosition :
        LET r == GetSitesByAddress("Denver", radius_miles, geo, up)
        IN  /\ op' = [name |-> "find_stations_by_address", level |-> "connector",
                      address |-> "Denver", radius_miles |-> radius_miles,
                      geo |-> [kind |-> geo.kind]]
            /\ upstream' = r.sent
            /\ calls' = RequestLog("_request_text", r.sent, r.request)
            /\ locals' = [parsed |-> r.parsed]
            /\ outcome' = UsgsFindStationsByAddress("Denver", radius_miles, geo, up, avail)
  /\ pc' = "done"
  /\ UNCHANGED <<registry, connectors, errors, pending, results, search>>

ConnectorGetStationInfo ==
  /\ pc = "idle"
  /\ \E station_id \in SiteNumbers, up \in SiteUpstreams, avail \in AvailableChoices :
        /\ op' = [name |-> "get_station_info", level |-> "connector",
                  station_id |-> station_id, geo |-> [kind |-> "unused"]]
        /\ upstream' = << [path |-> "/site/", params |-> [sites |-> station_id],
                           answer |-> up] >>
        /\ calls' = << [source |-> "USGSClient", method |-> "_request_text",
                        answer |-> up, result |-> RequestText(up)] >>
        /\ outcome' = UsgsGetStationInfo(station_id, up, avail)
  /\ pc' = "done"
  /\ UNCHANGED <<registry, connectors, errors, pending, results, search, locals>>

\* get_precipitation_data and get_streamflow_data of the connector differ in
\* the client fetch they call and the measurement class they build.
ConnectorSeries(name) ==
  /\ pc = "idle"
  /\ \E station_id \in SiteNumbers, range \in DateRanges, up \in IvUpstreams :
        \E r \in {UsgsGetSeries(range.start_date, range.end_date, up)} :
           /\ op' = [name |-> name, level |-> "connector", station_id |-> station_id,
                     start_date |-> range.start_date, end_date |-> range.end_date,
                     geo |-> [kind |-> "unused"]]
           /\ upstream' = r.sent
           /\ calls' = RequestLog("_request_json", r.sent, r.request)
           /\ outcome' = r.result
  /\ pc' = "done"
  /\ UNCHANGED <<registry, connectors, errors, pending, results, search, locals>>

ConnectorGetPrecipitationData ==
  ConnectorSeries("get_precipitation_data")

ConnectorGetStreamflowData ==
  ConnectorSeries("get_streamflow_data")

\* USGSClient.get_instantaneous_values called by itself.
ClientGetInstantaneousValues ==
  /\ pc = "idle"
  /\ \E start_date \in Instants, end_date \in Instants, period \in PeriodArgs,
        up \in IvUpstreams :
        LET r == GetInstantaneousValues(start_date, end_date, period, up)
        IN  /\ op' = [name |-> "get_instantaneous_values", level |-> "client",
                      start_date |-> start_date, end_date |-> end_date,
                      period_given |-> period # None, period |-> period]
            /\ upstream' = << r.sent >>
            /\ calls' = RequestLog("_request_json", << r.sent >>, << r.request >>)
            /\ outcome' = IF r.result.raised
                          THEN [kind |-> "raise", exc |-> r.result.exc]
                          ELSE [kind |-> "return", time_series |-> r.result.time_series]
  /\ pc' = "done"
  /\ UNCHANGED <<registry, connectors, errors, pending, results, search, locals>>

\* get_precipitation_data and get_streamflow_data of the client: the same
\* steps with another parameter code and measurement class.
ClientSeries(name) ==
  /\ pc = "idle"
  /\ \E start_date \in Instants, end_date \in Instants, arg \in ClientPeriodArgs,
        up \in IvUpstreams :
        \E r \in {ClientGetSeries(start_date, end_date,
                                  IF arg.given THEN arg.value ELSE Some(DefaultPeriod), up)} :
           /\ op' = [name |-> name, level |-> "client",
                     start_date |-> start_date, end_date |-> end_date,
                     period_given |-> arg.given /\ arg.value # None, period |-> arg.value]
           /\ upstream' = << r.sent >>
           /\ calls' = RequestLog("_request_json", << r.sent >>, << r.request >>)
           /\ outcome' = IF r.result.raised
                         THEN [kind |-> "raise", exc |-> r.result.exc]
                         ELSE [kind |-> "return", measurements |-> r.result.measurements,
                               raw |-> up.series]
  /\ pc' = "done"
  /\ UNCHANGED <<registry, connectors, errors, pending, results, search, locals>>

ClientGetPrecipitationData ==
  ClientSeries("get_precipitation_data")

ClientGetStreamflowData ==
  ClientSeries("get_streamflow_data")

\* A measurement of models/models.py built from a raw value: pydantic runs
\* Measurement.parse_value on it.
MeasurementBuilt ==
  /\ pc = "idle"
  /\ \E v \in RawValues :
        /\ op' = [name |-> "Measurement", level |-> "model", raw |-> v]
        /\ outcome' = [kind |-> "return", value |-> ParseValue(v)]
  /\ pc' = "done"
  /\ UNCHANGED <<registry, connectors, errors, pending, results, search, calls, upstream, locals>>

(***************************************************************************)
(* USGSClient._parse_rdb_sites_response on the text of a listing.  The     *)
(* text is kept as its lines (split on newline), a line as its fields      *)
(* (split on tab), a field as its characters.                              *)
(***************************************************************************)
\* Column names of the site listing.
SiteNoColumn ==
  <<"s", "i", "t", "e", "_", "n", "o">>

StationNmColumn ==
  <<"s", "t", "a", "t", "i", "o", "n", "_", "n", "m">>

DecLatColumn ==
  <<"d", "e", "c", "_", "l", "a", "t", "_", "v", "a">>

DecLongColumn ==
  <<"d", "e", "c", "_", "l", "o", "n", "g", "_", "v", "a">>

AltColumn ==
  <<"a", "l", "t", "_", "v", "a">>

\* line.startswith("#")
StartsWithHash(line) ==
  line[1] # << >> /\ line[1][1] = "#"

\* not line.strip(): tabs and blanks only.
IsBlankLine(line) ==
  \A i \in 1..Len(line) : Strip(line[i]) = << >>

\* str.lstrip() and str.rstrip() of a field.
LStrip(s) ==
  LET idx == { i \in 1..Len(s) : s[i] # " " }
  IN  IF idx = {} THEN << >>
      ELSE SubSeq(s, CHOOSE i \in idx : \A j \in idx : i <= j, Len(s))

RStrip(s) ==
  LET idx == { i \in 1..Len(s) : s[i] # " " }
  IN  IF idx = {} THEN << >>
      ELSE SubSeq(s, 1, CHOOSE i \in idx : \A j \in idx : i >= j)

\* A line without the whitespace at its start: leading blank fields go with
\* their tabs.
LStripLine(line) ==
  LET idx == { i \in 1..Len(line) : Strip(line[i]) # << >> }
      lo == CHOOSE i \in idx : \A j \in idx : i <= j
  IN  << LStrip(line[lo]) >> \o SubSeq(line, lo + 1, Len(line))

RStripLine(line) ==
  LET idx == { i \in 1..Len(line) : Strip(line[i]) # << >> }
      hi == CHOOSE i \in idx : \A j \in idx : i >= j
  IN  SubSeq(line, 1, hi - 1) \o << RStrip(line[hi]) >>

\* rdb_text.strip().split("\n"): a text of whitespace only gives one empty line.
StripText(rdb_text) ==
  LET idx == { i \in 1..Len(rdb_text) : ~IsBlankLine(rdb_text[i]) }
  IN  IF idx = {} THEN << << << >> >> >>
      ELSE LET lo == CHOOSE i \in idx : \A j \in idx : i <= j
               hi == CHOOSE i \in idx : \A j \in idx : i >= j
           IN  IF lo = hi THEN << RStripLine(LStripLine(rdb_text[lo])) >>
               ELSE << LStripLine(rdb_text[lo]) >> \o SubSeq(rdb_text, lo + 1, hi - 1)
                    \o << RStripLine(rdb_text[hi]) >>

\* header_idx: the first line that is no comment and not blank.
HeaderIdx(lines) ==
  LET idx == { i \in 1..Len(lines) : ~StartsWithHash(lines[i]) /\ ~IsBlankLine(lines[i]) }
  IN  IF idx = {} THEN None ELSE Some(CHOOSE i \in idx : \A j \in idx : i <= j)

\* site_data: header -> stripped field, for the headers the line has a field
\* for; a header that occurs twice keeps its last field.
SiteData(headers, fields) ==
  LET have == { i \in 1..Len(headers) : i <= Len(fields) }
  IN  [h \in { headers[i] : i \in have } |->
         Strip(fields[CHOOSE i \in have : headers[i] = h /\ \A j \in have : headers[j] = h => j <= i])]

\* site_data.get(key, default)
Get(site_data, key, default) ==
  IF key \in DOMAIN site_data THEN site_data[key] ELSE default

\* A reading of a data line that gives up on an altitude float() rejects.
RowOfLineStrict(headers, line) ==
  LET site_data == SiteData(headers, line)
      lat_str == Get(site_data, DecLatColumn, <<"0">>)
      lon_str == Get(site_data, DecLongColumn, <<"0">>)
      lat == IF lat_str # << >> THEN PyFloat(lat_str) ELSE Some(0)
      lon == IF lon_str # << >> THEN PyFloat(lon_str) ELSE Some(0)
      elev_str == Get(site_data, AltColumn, << >>)
  IN  IF lat = None \/ lon = None \/ (elev_str # << >> /\ PyFloat(elev_str) = None) THEN None
      ELSE Some([site_no |-> Get(site_data, SiteNoColumn, << >>),
                 station_nm |-> Get(site_data, StationNmColumn, << >>),
                 dec_lat_va |-> lat[1] * 10000,
                 dec_long_va |-> lon[1] * 10000,
                 alt_va |-> IF elev_str # << >> THEN PyFloat(elev_str) ELSE None])

\* The columns the parser reads of one data line: None when float() rejects a
\* coordinate (the line is passed over); an altitude float() rejects is left
\* out.  PyFloat counts in tenths, the coordinates are kept in 1e-5 degree.
RowOfLine(headers, line) ==
  LET site_data == SiteData(headers, line)
      lat_str == Get(site_data, DecLatColumn, <<"0">>)
      lon_str == Get(site_data, DecLongColumn, <<"0">>)
      lat == IF lat_str # << >> THEN PyFloat(lat_str) ELSE Some(0)
      lon == IF lon_str # << >> THEN PyFloat(lon_str) ELSE Some(0)
      elev_str == Get(site_data, AltColumn, << >>)
  IN  IF lat = None \/ lon = None THEN None
      ELSE Some([site_no |-> Get(site_data, SiteNoColumn, << >>),
                 station_nm |-> Get(site_data, StationNmColumn, << >>),
                 dec_lat_va |-> lat[1] * 10000,
                 dec_long_va |-> lon[1] * 10000,
                 alt_va |-> IF elev_str # << >> THEN PyFloat(elev_str) ELSE None])

\* The loop over lines[data_start_idx:] up to the coordinates: blank lines and
\* comments are passed over.
RECURSIVE DataRows(_, _)
DataRows(headers, lines) ==
  IF lines = << >> THEN << >>
  ELSE LET line == Head(lines)
           rest == DataRows(headers, Tail(lines))
       IN  IF IsBlankLine(line) \/ StartsWithHash(line) THEN rest
           ELSE RowOfLine(headers, line) \o rest

\* _parse_rdb_sites_response(rdb_text, search_lat, search_lon): the line after
\* the header is taken for the type line and skipped.
ParseRdbSitesText(rdb_text, search_lat, search_lon) ==
  LET lines == StripText(rdb_text)
      header_idx == HeaderIdx(lines)
  IN  IF header_idx = None THEN << >>
      ELSE ParseRdbSitesResponse(
             DataRows(lines[header_idx[1]], SubSeq(lines, header_idx[1] + 2, Len(lines))),
             search_lat, search_lon)

\* Lines of a listing.
CommentLine ==
  << <<"#", " ", "U", "S">> >>

HeaderLine ==
  << SiteNoColumn, StationNmColumn, DecLatColumn, DecLongColumn, AltColumn >>

TypeLine ==
  << <<"1", "5", "s">>, <<"5", "0", "s">>, <<"1", "6", "s">>, <<"1", "6", "s">>, <<"8", "s">> >>

BlankLine ==
  << <<" ">> >>

DataLines ==
  { << <<"0", "1">>, <<"A", "b">>, <<"3", "9", ".", "7">>, <<"-", "1", "0", "4", ".", "9">>,
       <<"5", "2", "8", ".", "5">> >>,
    << <<"0", "2">>, <<"B">>, <<" ", "4", "0", ".", "0">>, <<"-", "1", "0", "5", ".", "2">>,
       << >> >>,
    << <<"0", "3">>, <<"A", "a">>, <<"3", "9", ".", "9">>, <<"-", "1", "0", "5", ".", "0">>,
       <<"x">> >>,
    << << >>, <<"A", "a">>, <<"3", "9", ".", "7">>, <<"-", "1", "0", "5", ".", "0">>,
       <<"1", ".", "0">> >>,
    << <<"1", "0">>, <<"A", "a">>, <<"0", ".", "0">>, <<"-", "1", "0", "5", ".", "0">>,
       <<"1", ".", "0">> >>,
    << <<"1", "1">>, <<"A", "a">>, <<"a", "b", "c">>, <<"-", "1", "0", "5", ".", "0">>,
       <<"1", ".", "0">> >>,
    << <<"1", "2">>, <<"A", "a">>, <<"3", "9", ".", "7">>, << >>, <<"1", ".", "0">> >>,
    << <<"1", "3">>, <<"A", "a">> >>,
    CommentLine,
    BlankLine }

\* Most lines after the type line.
MaxLines ==
  2

\* The texts the parser is given: comments, header and type line followed by
\* data lines (and the newline that ends the text), and texts that stop
\* before the data.
RdbTexts ==
  { << CommentLine, HeaderLine, TypeLine >> \o l \o e :
      l \in SeqsUpTo(DataLines, MaxLines), e \in {<< >>, << << << >> >> >>} }
  \cup { << HeaderLine, TypeLine >> \o l : l \in SeqsUpTo(DataLines, MaxLines) }
  \cup { << << << >> >> >>, << CommentLine >>, << CommentLine, CommentLine, HeaderLine >> }

\* The parser called on a text, as get_sites_by_coordinates does with the
\* text of a 200 answer.
ClientParseRdbSitesResponse ==
  /\ pc = "idle"
  /\ \E rdb_text \in RdbTexts :
        /\ op' = [name |-> "_parse_rdb_sites_response", level |-> "client",
                  rdb_text |-> rdb_text,
                  search_lat |-> SearchLatitude, search_lon |-> SearchLongitude]
        /\ outcome' = [kind |-> "return",
                       stations |-> ParseRdbSitesText(rdb_text, SearchLatitude, SearchLongitude)]
  /\ pc' = "done"
  /\ UNCHANGED <<registry, connectors, errors, pending, results, search, calls, upstream, locals>>

\* A USGSConnector() and its USGSClient, no operation called yet.
USGSInit ==
  /\ registry = RegistryShipped
  /\ connectors = <<"USGS">>
  /\ errors = EmptyDict
  /\ pc = "idle"
  /\ op = NoOp
  /\ pending = << >>
  /\ results = << >>
  /\ search = << >>
  /\ calls = << >>
  /\ upstream = << >>
  /\ locals = NoLocals
  /\ outcome = NoOutcome

(***************************************************************************)
(* routers/water_data.py: the latest-measurement endpoints.                *)
(***************************************************************************)
\* max(measurements, key=lambda m: m.timestamp) on a list that is not empty:
\* the first measurement of the greatest timestamp; comparing a timestamp
\* with an offset to one without raises TypeError.
RECURSIVE MaxByTimestamp(_, _, _)
MaxByTimestamp(measurements, best, i) ==
  IF i > Len(measurements) THEN [kind |-> "return", latest |-> measurements[best]]
  ELSE IF measurements[i].timestamp[1].aware # measurements[best].timestamp[1].aware
  THEN [kind |-> "raise", exc |-> "TypeError"]
  ELSE IF measurements[i].timestamp[1].instant > measurements[best].timestamp[1].instant
  THEN MaxByTimestamp(measurements, i, i + 1)
  ELSE MaxByTimestamp(measurements, best, i + 1)

Latest(measurements) ==
  MaxByTimestamp(measurements, 1, 2)

\* get_latest_streamflow / get_latest_precipitation: the HTTPException(404)
\* is raised inside the try, whose `except Exception` answers every
\* exception with HTTPException(500).
GetLatest(name, fetch) ==
  /\ pc = "idle"
  /\ \E site_no \in SiteNumbers, up \in IvUpstreams :
        \E r \in {ClientGetSeries(None, None, Some(LastDay), up)} :
           \E inner \in {IF r.result.raised
                          THEN [kind |-> "raise", exc |-> r.result.exc]
                          ELSE IF r.result.measurements = << >>
                          THEN [kind |-> "raise", exc |-> "HTTPException", status_code |-> 404]
                          ELSE Latest(r.result.measurements)} :
              /\ op' = [name |-> name, level |-> "router", site_no |-> site_no]
              /\ upstream' = << r.sent >>
              /\ calls' = RequestLog("_request_json", << r.sent >>, << r.request >>)
                             \o << [source |-> "USGSClient", method |-> fetch,
                                    answer |-> up, result |-> r.result] >>
              /\ outcome' = IF inner.kind = "raise"
                            THEN [kind |-> "raise", exc |-> "HTTPException", status_code |-> 500]
                            ELSE [kind |-> "return", status_code |-> 200, site_no |-> site_no,
                                  latest_measurement |-> inner.latest]
  /\ pc' = "done"
  /\ UNCHANGED <<registry, connectors, errors, pending, results, search, locals>>

GetLatestStreamflow ==
  GetLatest("get_latest_streamflow", "get_streamflow_data")

GetLatestPrecipitation ==
  GetLatest("get_latest_precipitation", "get_precipitation_data")

USGSNext ==
  \/ ConnectorFindStationsByCoordinates
  \/ ConnectorFindStationsByAddress
  \/ ConnectorGetStationInfo
  \/ ConnectorGetPrecipitationData
  \/ ConnectorGetStreamflowData
  \/ ClientGetInstantaneousValues
  \/ ClientGetPrecipitationData
  \/ ClientGetStreamflowData
  \/ ClientParseRdbSitesResponse
  \/ GetLatestStreamflow
  \/ GetLatestPrecipitation
  \/ MeasurementBuilt

USGSSpec ==
  USGSInit /\ [][USGSNext]_vars

(***************************************************************************)
(* Properties of the USGS connector and client operated directly.          *)
(***************************************************************************)
\* A connector capability has ended.
ConnectorOperationEnded ==
  pc = "done" /\ op.name # "none" /\ op.level = "connector"

\* The answer a of the upstream to a request on path is a failure: no answer
\* (timeout, connection failure), an error status, or a body of the series
\* endpoint that is no JSON or does not fit the response schema.
AnswerFails(path, a) ==
  \/ a.kind \in {"timeout", "connect_error"}
  \/ a.status >= 400
  \/ path = "/iv/" /\ a.status = 200 /\ a.body \in {"invalid_json", "schema_invalid"}

\* The Provider Client call of the operation failed: a request failed, or
\* the address was not geocoded.
ProviderCallFailed ==
  \/ op.geo.kind = "none"
  \/ \E i \in 1..Len(upstream) : AnswerFails(upstream[i].path, upstream[i].answer)

\* The provider signalled "not found" (status 404) on a single-station lookup.
NotFoundSignal ==
  /\ op.name = "get_station_info"
  /\ \E i \in 1..Len(upstream) :
        upstream[i].answer.kind = "response" /\ upstream[i].answer.status = 404

\* C11: whenever the Provider Client call of a connector capability fails
\* (timeout, 5xx, 4xx, malformed or schema-invalid body, connection failure,
\* address not geocoded), the capability raises DataSourceError, except that
\* a not-found signal on get_station_info raises StationNotFound; no other
\* error leaves the connector.
C11_ConnectorErrorMapping ==
  (ConnectorOperationEnded /\ ProviderCallFailed) =>
     /\ outcome.kind = "raise"
     /\ outcome.exc = (IF NotFoundSignal THEN "StationNotFound" ELSE "DataSourceError")

(***************************************************************************)
(* Properties of the construction and of the connector selection.          *)
(***************************************************************************)
\* The constructor call has just ended (no operation called since).
JustConstructed ==
  op.name \in {"PrecipAPI", "create_precipapi"}

\* The source tags the constructor call asked for, as names; all registered
\* ones when the argument is absent or empty.
RegisteredTags ==
  { DataSourceValue(m) : m \in DOMAIN registry.impl }

RequestedTags ==
  IF op.sources = None \/ op.sources[1] = << >> THEN RegisteredTags
  ELSE IF op.name = "PrecipAPI" THEN { DataSourceValue(m) : m \in Range(op.sources[1]) }
  ELSE Range(op.sources[1])

\* The requested tags that cannot become a connector: not registered, or
\* the connector class's constructor fails.
UnusableTags ==
  { t \in RequestedTags :
      \/ t \notin RegisteredTags
      \/ \E m \in op.failing : DataSourceValue(m) = t }

\* C12: the constructor call never raises because of a requested source: each
\* requested tag that is not registered or whose connector fails to construct
\* has an entry in the initialization errors under its name, and the other
\* requested tags are the active connectors; every find_stations response
\* carries all initialization errors together with the fan-out errors.
C12_ConstructionRecordsErrors ==
  /\ JustConstructed =>
        /\ outcome.kind # "raise"
        /\ DOMAIN errors = UnusableTags
        /\ { DataSourceValue(m) : m \in Range(connectors) } = RequestedTags \ UnusableTags
  /\ FindStationsResponded =>
        /\ \A t \in DOMAIN errors : t \in DOMAIN outcome.errors_by_source
        /\ \A t \in DOMAIN locals.errors_by_source :
              /\ t \in DOMAIN outcome.errors_by_source
              /\ outcome.errors_by_source[t] = locals.errors_by_source[t]

\* The connector searches find_stations called on source m.
SearchCallsOn(m) ==
  { i \in 1..Len(calls) : calls[i].source = m }

\* The sources request.sources names; all of them when it is absent.
NamedSources ==
  IF op.request.sources = None THEN DataSource ELSE Range(op.request.sources[1])

\* The request names a search location: an address, or both coordinates.
\* (A request with a latitude only is the matter of the validation, not of
\* the selection: its searches end before any connector is called.)
LocationGiven ==
  \/ op.request.address # None
  \/ op.request.latitude # None /\ op.request.longitude # None

CoordinateSearchReturned ==
  /\ pc = "done"
  /\ op.name = "find_stations_by_coordinates"
  /\ outcome.kind = "return"

\* The data rows of the upstream listing that lie inside the bounding box
\* of the request and farther from the search point than the radius.
RowsBeyondRadius ==
  LET box == upstream[1].params.bBox
      rows == upstream[1].answer.rows
  IN  { i \in 1..Len(rows) :
          /\ rows[i].site_no # << >>
          /\ box.west <= rows[i].dec_long_va /\ rows[i].dec_long_va <= box.east
          /\ box.south <= rows[i].dec_lat_va /\ rows[i].dec_lat_va <= box.north
          /\ GeodesicTenths(op.latitude, op.longitude,
                            rows[i].dec_lat_va, rows[i].dec_long_va) > op.radius_miles }

\* C14: every station a coordinate search returns carries its distance from
\* the search point, and that distance is at most the radius; a row of the
\* listing inside the bounding box but farther away than the radius is not
\* returned.
C14_WithinRadius ==
  CoordinateSearchReturned =>
     /\ \A i \in 1..Len(outcome.stations) :
           LET st == outcome.stations[i]
           IN  /\ st.distance_miles # None
               /\ st.distance_miles[1] = GeodesicTenths(op.latitude, op.longitude,
                                                        st.latitude, st.longitude)
               /\ st.distance_miles[1] <= op.radius_miles
     /\ \A r \in RowsBeyondRadius :
           \A i \in 1..Len(outcome.stations) :
              outcome.stations[i].vendor_id # upstream[1].answer.rows[r].site_no

\* A search returned a station while the listing held a row inside the box
\* and beyond the radius.
C14_Witness ==
  /\ CoordinateSearchReturned
  /\ outcome.stations # << >>
  /\ RowsBeyondRadius # {}

\* A station list is in ascending order of distance: no station comes before
\* one that is nearer, a distance of 0 being the nearest, and the stations
\* without distance come last.
AscendingByDistance(stations) ==
  \A i, j \in 1..Len(stations) :
     i < j =>
        \/ stations[j].distance_miles = None
        \/ /\ stations[i].distance_miles # None
           /\ stations[i].distance_miles[1] <= stations[j].distance_miles[1]

\* C15: the list the tabular parser returns for a coordinate search, and the
\* list the connector's coordinate search returns, are in ascending order of
\* distance, a station exactly at the search point (distance 0) first.
C15_SearchSortedByDistance ==
  (pc = "done" /\ op.name = "find_stations_by_coordinates") =>
     /\ AscendingByDistance(locals.parsed)
     /\ outcome.kind = "return" => AscendingByDistance(outcome.stations)

\* C16: the Station a by-ID lookup returns (get_station of the Aggregator,
\* delegated to the connector's get_station_info) has no distance_miles.
C16_LookupHasNoDistance ==
  (pc = "done" /\ op.name = "get_station" /\ outcome.kind = "return") =>
     outcome.station.distance_miles = None

\* The number (in tenths) a raw upstream value denotes: a decimal numeral,
\* possibly signed and with blanks around it; None for null, the empty string
\* and every other text.
DenotedNumber(v) ==
  CASE v = RawStr(<<"1", "2", ".", "5">>) -> Some(125)
    [] v = RawStr(<<"0">>) -> Some(0)
    [] v = RawStr(<<"0", ".", "0">>) -> Some(0)
    [] v = RawStr(<<" ", "-", "7">>) -> Some(-70)
    [] OTHER -> None

\* The raw value entries of a body, in order: those of every value group
\* that has a "value" array.
RECURSIVE GroupsEntries(_)
GroupsEntries(groups) ==
  IF groups = << >> THEN << >>
  ELSE (IF Head(groups).has_value THEN Head(groups).value ELSE << >>)
       \o GroupsEntries(Tail(groups))

RECURSIVE SeriesEntries(_)
SeriesEntries(series) ==
  IF series = << >> THEN << >>
  ELSE GroupsEntries(Head(series).values) \o SeriesEntries(Tail(series))

\* A series fetch of the client has returned its measurements.
ClientSeriesReturned ==
  /\ pc = "done"
  /\ op.name \in {"get_precipitation_data", "get_streamflow_data"}
  /\ op.level = "client"
  /\ outcome.kind = "return"

\* C17: the value of a measurement is null when the raw upstream value is
\* null, empty or not a number, and exactly the number the raw value denotes
\* otherwise (so it is 0 only for a raw value that denotes 0); for the
\* provider-level measurements of a series fetch and for the normalized
\* Measurement model.
C17_ValueNormalization ==
  /\ ClientSeriesReturned =>
        LET raw == SeriesEntries(outcome.raw)
        IN  /\ Len(outcome.measurements) = Len(raw)
            /\ \A i \in 1..Len(raw) :
                  outcome.measurements[i].value = DenotedNumber(raw[i].value)
  /\ (pc = "done" /\ op.name = "Measurement") =>
        outcome.value = DenotedNumber(op.raw)

\* A series fetch returned the measurement 12.5 for the raw value "12.5".
C17_Witness ==
  /\ ClientSeriesReturned
  /\ \E i \in 1..Len(outcome.measurements) :
        /\ SeriesEntries(outcome.raw)[i].value = RawStr(<<"1", "2", ".", "5">>)
        /\ outcome.measurements[i].value = Some(125)

\* C18: the search_location of a find_stations response is the resolved
\* location: the request's latitude and longitude for a coordinate search,
\* and for an address search that a connector carried out the latitude and
\* longitude the address was geocoded to (both present).
C18_SearchLocationResolved ==
  FindStationsResponded =>
     /\ (op.request.latitude # None /\ op.request.longitude # None) =>
           /\ outcome.search_location.latitude = op.request.latitude
           /\ outcome.search_location.longitude = op.request.longitude
     /\ (op.request.latitude = None /\ op.request.longitude = None
           /\ TruthyStr(op.request.address)
           /\ \E m \in DOMAIN search : search[m].status = "returned") =>
           /\ outcome.search_location.latitude # None
           /\ outcome.search_location.longitude # None

\* The error class a request of the client ended with: the exception type
\* raised, "none" when the request returned.
ErrorClassOf(result) ==
  IF result.raised THEN result.exc ELSE "none"

\* C19: the client puts every failed request into exactly one of five
\* distinguishable classes: a timeout into Timeout (USGSTimeoutError),
\* status 404 into NotFound (USGSNotFoundError), a status >= 500 into
\* ServerError (USGSServerError), another status in 400..499 into ClientError
\* (USGSException), and a success status with a body that cannot be parsed
\* into a class of its own, different from these four; a success status with
\* a parseable body is no failure.
C19_FailureClasses ==
  \A i \in 1..Len(calls) :
     LET a == calls[i].answer
         class == ErrorClassOf(calls[i].result)
         unparseable == calls[i].method = "_request_json" /\ a.kind = "response"
                        /\ a.status = 200 /\ a.body = "invalid_json"
     IN  /\ a.kind = "timeout" => class = "USGSTimeoutError"
         /\ (a.kind = "response" /\ a.status = 404) => class = "USGSNotFoundError"
         /\ (a.kind = "response" /\ a.status >= 500) => class = "USGSServerError"
         /\ (a.kind = "response" /\ a.status >= 400 /\ a.status < 500 /\ a.status # 404) =>
               class = "USGSException"
         /\ unparseable =>
               class \notin {"none", "USGSTimeoutError", "USGSNotFoundError",
                             "USGSServerError", "USGSException"}
         /\ (a.kind = "response" /\ a.status = 200 /\ ~unparseable) => class = "none"

\* A fetch of the client (the generic one, or the precipitation or
\* streamflow fetch built on it) has sent its request.
ClientFetchSent ==
  /\ pc = "done"
  /\ op.name \in {"get_instantaneous_values", "get_precipitation_data", "get_streamflow_data"}
  /\ op.level = "client"
  /\ upstream # << >>

\* C20: the request of a series fetch carries either explicit start and end
\* instants or a period token, never both; it carries the caller's instants
\* (to the minute) and no period when the caller gave start and end and no
\* period token, and the 7-day period "P7D" when the caller gave neither
\* instants nor period.
C20_InstantsOrPeriod ==
  ClientFetchSent =>
     LET p == upstream[1].params
         instants == p.startDT # None /\ p.endDT # None
     IN  /\ (p.period # None) # instants
         /\ p.period # None => (p.startDT = None /\ p.endDT = None)
         /\ (~op.period_given /\ op.start_date # None /\ op.end_date # None) =>
               /\ p.period = None
               /\ instants
               /\ p.startDT[1] * 60 <= op.start_date[1] /\ op.start_date[1] < p.startDT[1] * 60 + 60
               /\ p.endDT[1] * 60 <= op.end_date[1] /\ op.end_date[1] < p.endDT[1] * 60 + 60
         /\ (~op.period_given /\ op.start_date = None /\ op.end_date = None) =>
               /\ p.period # None
               /\ p.period[1].text = "P7D"

(***************************************************************************)
(* base.py: DataSourceConnector.  A connector class that overrides the     *)
(* abstract members only (name, find_stations_by_coordinates,              *)
(* get_station_info) inherits the operations below.  An error message is   *)
(* kept as the pieces of its f-string.                                     *)
(***************************************************************************)
\* models/exceptions.py: the class an exception class derives from.
ExceptionBase(cls) ==
  CASE cls = "PrecipAPIError" -> "Exception"
    [] cls \in {"StationNotFound", "DataSourceError", "ValidationError",
                "AuthenticationError"} -> "PrecipAPIError"
    [] cls = "RateLimitError" -> "DataSourceError"
    [] cls = "Exception" -> "BaseException"
    [] OTHER -> "Exception"

\* isinstance(e, cls) for an exception e of class exc.
RECURSIVE IsInstance(_, _)
IsInstance(exc, cls) ==
  \/ exc = cls
  \/ exc # "BaseException" /\ IsInstance(ExceptionBase(exc), cls)

\* What name() returns in such a connector class.
ConnectorNames ==
  {"noaa", "nwis", "mesonet", "demo"}

\* The address argument of an address search.
Addresses ==
  {"", "Denver", "Boulder"}

\* DataSourceConnector.find_stations_by_address
BaseFindStationsByAddress(name, address, radius_miles) ==
  [kind |-> "raise", exc |-> "DataSourceError",
   msg |-> <<name, " does not support address-based search">>]

\* DataSourceConnector.get_precipitation_data
BaseGetPrecipitationData(name, station_id, start_date, end_date) ==
  [kind |-> "raise", exc |-> "DataSourceError",
   msg |-> <<name, " does not support precipitation data retrieval">>]

\* DataSourceConnector.get_streamflow_data
BaseGetStreamflowData(name, station_id, start_date, end_date) ==
  [kind |-> "raise", exc |-> "DataSourceError",
   msg |-> <<name, " does not support streamflow data retrieval">>]

\* DataSourceConnector.get_temperature_data
BaseGetTemperatureData(name, station_id, start_date, end_date) ==
  [kind |-> "raise", exc |-> "DataSourceError",
   msg |-> <<name, " does not support temperature data retrieval">>]

\* DataSourceConnector._validate_date_range on the parsed date strings (None
\* for a string fromisoformat rejects).
ValidateDateRange(start_date, end_date) ==
  IF start_date = None \/ end_date = None
  THEN [kind |-> "raise", exc |-> "DataSourceError", msg |-> <<"Invalid date format: ">>]
  ELSE IF start_date[1] >= end_date[1]
  THEN [kind |-> "raise", exc |-> "DataSourceError",
        msg |-> <<"Start date must be before end date">>]
  ELSE [kind |-> "return", start_dt |-> start_date[1], end_dt |-> end_date[1]]

DefaultFindStationsByAddress ==
  /\ pc = "idle"
  /\ \E name \in ConnectorNames, address \in Addresses, radius_miles \in Radii :
        /\ op' = [name |-> "find_stations_by_address", level |-> "base",
                  connector |-> name, address |-> address, radius_miles |-> radius_miles]
        /\ outcome' = BaseFindStationsByAddress(name, address, radius_miles)
  /\ pc' = "done"
  /\ UNCHANGED <<registry, connectors, errors, pending, results, search, calls, upstream, locals>>

\* The three data retrievals take the same arguments.
DefaultData(operation, name, station_id, range) ==
  /\ pc = "idle"
  /\ op' = [name |-> operation, level |-> "base", connector |-> name,
            station_id |-> station_id,
            start_date |-> range.start_date, end_date |-> range.end_date]
  /\ pc' = "done"
  /\ UNCHANGED <<registry, connectors, errors, pending, results, search, calls, upstream, locals>>

DefaultGetPrecipitationData ==
  \E name \in ConnectorNames, station_id \in SiteNumbers, range \in DateRanges :
     /\ DefaultData("get_precipitation_data", name, station_id, range)
     /\ outcome' = BaseGetPrecipitationData(name, station_id, range.start_date, range.end_date)

DefaultGetStreamflowData ==
  \E name \in ConnectorNames, station_id \in SiteNumbers, range \in DateRanges :
     /\ DefaultData("get_streamflow_data", name, station_id, range)
     /\ outcome' = BaseGetStreamflowData(name, station_id, range.start_date, range.end_date)

DefaultGetTemperatureData ==
  \E name \in ConnectorNames, station_id \in SiteNumbers, range \in DateRanges :
     /\ DefaultData("get_temperature_data", name, station_id, range)
     /\ outcome' = BaseGetTemperatureData(name, station_id, range.start_date, range.end_date)

DefaultValidateDateRange ==
  /\ pc = "idle"
  /\ \E name \in ConnectorNames, range \in DateRanges :
        /\ op' = [name |-> "_validate_date_range", level |-> "base", connector |-> name,
                  start_date |-> range.start_date, end_date |-> range.end_date]
        /\ outcome' = ValidateDateRange(range.start_date, range.end_date)
  /\ pc' = "done"
  /\ UNCHANGED <<registry, connectors, errors, pending, results, search, calls, upstream, locals>>

\* A connector of such a class, constructed, no operation called yet.
BaseInit ==
  /\ registry = RegistryExtended
  /\ connectors = << >>
  /\ errors = EmptyDict
  /\ pc = "idle"
  /\ op = NoOp
  /\ pending = << >>
  /\ results = << >>
  /\ search = << >>
  /\ calls = << >>
  /\ upstream = << >>
  /\ locals = NoLocals
  /\ outcome = NoOutcome

BaseNext ==
  \/ DefaultFindStationsByAddress
  \/ DefaultGetPrecipitationData
  \/ DefaultGetStreamflowData
  \/ DefaultGetTemperatureData
  \/ DefaultValidateDateRange

BaseSpec ==
  BaseInit /\ [][BaseNext]_vars

(***************************************************************************)
(* Properties of the inherited connector operations.                       *)
(***************************************************************************)
\* One of the optional capabilities has ended on a connector that does not
\* override it.
DefaultCapabilityEnded ==
  /\ pc = "done"
  /\ op.level = "base"
  /\ op.name \in {"find_stations_by_address", "get_precipitation_data", "get_streamflow_data"}

\* C21: on a connector that does not override them, the address search and
\* the precipitation and streamflow retrievals never return a result: each
\* fails with an error whose message names the connector and whose kind is
\* the unsupported-operation kind, which is not DataSourceError nor derived
\* from it.
C21_DefaultsUnsupportedOperation ==
  DefaultCapabilityEnded =>
     /\ outcome.kind = "raise"
     /\ outcome.msg[1] = op.connector
     /\ ~IsInstance(outcome.exc, "DataSourceError")

(***************************************************************************)
(* Properties of the validation and the merge of find_stations.            *)
(***************************************************************************)
\* find_stations has been called and has ended, whatever it did.
FindStationsOver ==
  pc = "done" /\ op.name = "find_stations"

\* The request holds both coordinates.
CompletePair(req) ==
  req.latitude # None /\ req.longitude # None

\* find_stations raised the invalid-request error.
RaisedInvalidRequest ==
  outcome.kind = "raise" /\ outcome.exc = "ValueError"

\* C22: find_stations raises the invalid-request error exactly when the
\* request has neither an address nor both coordinates: a request with both
\* coordinates (latitude 0 included) or an address is not rejected and every
\* selected connector is searched, and a request with no address and a
\* coordinate missing is rejected with no search task run.
C22_InvalidRequestExactly ==
  FindStationsOver =>
     /\ (CompletePair(op.request) \/ TruthyStr(op.request.address)) =>
           /\ ~RaisedInvalidRequest
           /\ \A m \in DOMAIN search : SearchCallsOn(m) # {}
     /\ (~CompletePair(op.request) /\ op.request.address = None) =>
           /\ RaisedInvalidRequest
           /\ results = << >>

\* The position at which the search of source m completed among the
\* connector searches of this find_stations (calls is in completion order).
CompletionRank(m) ==
  CHOOSE i \in 1..Len(calls) : calls[i].source = m

\* The stations other sources returned under the key of station u.
DuplicatesElsewhere(u) ==
  { d \in Range(locals.all_stations) : d.source # u.source /\ SameKey(d, u) }

ParserEnded ==
  pc = "done" /\ op.name = "_parse_rdb_sites_response"

\* A line of the listing is a comment; is blank.
ListingComment(line) ==
  line[1] # << >> /\ Head(line[1]) = "#"

ListingBlank(line) ==
  \A i \in 1..Len(line) : \A j \in 1..Len(line[i]) : line[i][j] = " "

\* The positions of the lines that are neither comment nor blank; the header
\* is the first of them, the type line the line right after the header.
ContentLines ==
  { i \in 1..Len(op.rdb_text) :
      ~ListingComment(op.rdb_text[i]) /\ ~ListingBlank(op.rdb_text[i]) }

HeaderPosition ==
  CHOOSE i \in ContentLines : \A j \in ContentLines : i <= j

\* The positions of the data rows.
DataRowPositions ==
  IF ContentLines = {} THEN {}
  ELSE { i \in ContentLines : i > HeaderPosition + 1 }

\* The field of the data row at position i under the column called name
\* (empty when the row is too short).
RowField(i, name) ==
  LET header == op.rdb_text[HeaderPosition]
      k == CHOOSE c \in 1..Len(header) : header[c] = name
  IN  IF k <= Len(op.rdb_text[i]) THEN op.rdb_text[i][k] ELSE << >>

\* The coordinate (1e-5 degree) a field denotes; None when it is no number.
CoordinateDenoted(f) ==
  CASE f = <<"3", "9", ".", "7">> -> Some(3970000)
    [] f = <<" ", "4", "0", ".", "0">> -> Some(4000000)
    [] f = <<"3", "9", ".", "9">> -> Some(3990000)
    [] f = <<"-", "1", "0", "4", ".", "9">> -> Some(-10490000)
    [] f = <<"-", "1", "0", "5", ".", "2">> -> Some(-10520000)
    [] f = <<"-", "1", "0", "5", ".", "0">> -> Some(-10500000)
    [] f = <<"0", ".", "0">> -> Some(0)
    [] OTHER -> None

\* The altitude (tenths of a foot) a field denotes; None when it is no number.
AltitudeDenoted(f) ==
  CASE f = <<"5", "2", "8", ".", "5">> -> Some(5285)
    [] f = <<"1", ".", "0">> -> Some(10)
    [] OTHER -> None

\* The data rows with a primary identifier and two coordinates that are
\* numbers other than zero.
RecordRows ==
  { i \in DataRowPositions :
      /\ RowField(i, SiteNoColumn) # << >>
      /\ TruthyNum(CoordinateDenoted(RowField(i, DecLatColumn)))
      /\ TruthyNum(CoordinateDenoted(RowField(i, DecLongColumn))) }

\* The record such a row stands for.
RecordOfRow(i) ==
  [site_no |-> RowField(i, SiteNoColumn),
   latitude |-> CoordinateDenoted(RowField(i, DecLatColumn))[1],
   longitude |-> CoordinateDenoted(RowField(i, DecLongColumn))[1],
   elevation_ft |-> AltitudeDenoted(RowField(i, AltColumn))]

\* The same fields of a record the parser returned.
RecordReturned(j) ==
  [site_no |-> outcome.stations[j].site_no,
   latitude |-> outcome.stations[j].latitude,
   longitude |-> outcome.stations[j].longitude,
   elevation_ft |-> outcome.stations[j].elevation_ft]

\* C24: the tabular parser never raises, and the records it returns are
\* exactly the data rows (lines after the header and the type line that are
\* no comment and not blank) with a primary identifier and a latitude and a
\* longitude that are numbers other than zero, one record per such row; a
\* row whose elevation is missing or no number is returned with elevation
\* null; comments, header and type line give no record, and a text without
\* data rows gives the empty list.
C24_TabularParser ==
  ParserEnded =>
     /\ outcome.kind = "return"
     /\ Len(outcome.stations) = Cardinality(RecordRows)
     /\ \A rec \in { RecordOfRow(i) : i \in RecordRows }
                   \cup { RecordReturned(j) : j \in 1..Len(outcome.stations) } :
           Cardinality({ i \in RecordRows : RecordOfRow(i) = rec })
             = Cardinality({ j \in 1..Len(outcome.stations) : RecordReturned(j) = rec })
     /\ DataRowPositions = {} => outcome.stations = << >>

\* Witness of C24: a listing with a comment, header and type line, a row
\* without identifier and a row whose elevation is no number; the parser
\* returned the second row alone, with elevation null.
C24_Witness ==
  /\ ParserEnded
  /\ ListingComment(op.rdb_text[1])
  /\ Cardinality(DataRowPositions) = 2
  /\ \E i \in DataRowPositions : RowField(i, SiteNoColumn) = << >>
  /\ \E i \in RecordRows : RowField(i, AltColumn) = <<"x">>
  /\ Len(outcome.stations) = 1
  /\ outcome.stations[1].elevation_ft = None

(***************************************************************************)
(* Properties of the series fetches of the client.                         *)
(***************************************************************************)
\* A series fetch of the client has ended on a well-formed 200 answer.
ClientSeriesAnswered ==
  /\ pc = "done"
  /\ op.name \in {"get_precipitation_data", "get_streamflow_data"}
  /\ op.level = "client"
  /\ upstream[1].answer.kind = "response"
  /\ upstream[1].answer.status = 200
  /\ upstream[1].answer.body = "ok"

\* The time-series entries of that answer.
AnsweredSeries ==
  upstream[1].answer.series

\* Every value entry of the answer has a datetime that is well formed.
AllEntriesTimed ==
  \A i \in 1..Len(SeriesEntries(AnsweredSeries)) :
     LET d == SeriesEntries(AnsweredSeries)[i].dateTime
     IN  d.given /\ d.valid

\* The number of value entries of a list of value groups; a group without a
\* "value" array counts zero.
RECURSIVE GroupsCount(_)
GroupsCount(groups) ==
  IF groups = << >> THEN 0
  ELSE (IF Head(groups).has_value THEN Len(Head(groups).value) ELSE 0)
       + GroupsCount(Tail(groups))

\* For each value entry of the answer, in input order, the site and unit of
\* the time-series entry it lies in.
RECURSIVE SeriesOrigins(_)
SeriesOrigins(series) ==
  IF series = << >> THEN << >>
  ELSE [i \in 1..GroupsCount(Head(series).values) |->
          [site_no |-> Head(series).site_no, unit |-> Head(series).unit]]
       \o SeriesOrigins(Tail(series))

ReadableEntry(e) ==
  e.dateTime.given /\ e.dateTime.valid /\ e.dateTime.suffix # ""

\* The instant (seconds, UTC) the datetime of a readable entry tells.
InstantTold(e) ==
  CASE e.dateTime = DateTimeZ -> 3600
    [] e.dateTime = DateTimeOffset -> 32400

\* Every value entry of the answer has a datetime text.
EveryEntryHasDatetime ==
  \A i \in 1..Len(SeriesEntries(AnsweredSeries)) :
     SeriesEntries(AnsweredSeries)[i].dateTime.given

\* C26: a value entry whose datetime cannot be parsed, or that has neither
\* "Z" nor an offset, is dropped on its own: the series fetch still returns,
\* and what it returns is one measurement for each other entry of the
\* answer, in order, with that entry's value and instant.  (Stated for
\* answers in which every entry has a datetime text.)
C26_BadDatetimeDroppedAlone ==
  (ClientSeriesAnswered /\ EveryEntryHasDatetime) =>
     LET kept == SelectSeq(SeriesEntries(AnsweredSeries), ReadableEntry)
     IN  /\ outcome.kind = "return"
         /\ Len(outcome.measurements) = Len(kept)
         /\ \A i \in 1..Len(kept) :
               /\ outcome.measurements[i].value = DenotedNumber(kept[i].value)
               /\ outcome.measurements[i].timestamp[1].instant = InstantTold(kept[i])

(***************************************************************************)
(* HTTP sessions of the USGS connector.                                    *)
(*                                                                         *)
(* A USGSConnector keeps one USGSClient (_get_client), and the client      *)
(* keeps one session pointer (_client, an httpx.AsyncClient).  Every       *)
(* operation of the connector runs `async with client`: __aenter__ makes a *)
(* new session and stores it in the pointer, __aexit__ closes the session  *)
(* the pointer holds at that time.  A request goes out on the session the  *)
(* pointer holds when it is issued; httpx refuses (RuntimeError) to send   *)
(* on a closed session.                                                    *)
(*                                                                         *)
(* Operations are coroutines: one runs until it waits for an answer of the *)
(* upstream, and another may run meanwhile.  A step below is the code      *)
(* between two such waits.  In this specification pc, op, outcome, pending *)
(* and search are functions of the running operation (1 or 2); locals is   *)
(* the client's pointer and the sessions made so far; calls lists the      *)
(* requests issued and results the sessions closed or replaced.            *)
(***************************************************************************)
\* The operations that may run at the same time on one connector.
Procs ==
  {1, 2}

\* len(test_parameters) of _get_available_parameters.
NumTestParameters ==
  4

\* Most stations a search hands to the conversion loop.
MaxFound ==
  1

ConnectorOperations ==
  {"find_stations_by_coordinates", "find_stations_by_address", "get_station_info",
   "get_precipitation_data", "get_streamflow_data"}

\* The client and its sessions: the pointer, every session made (in order),
\* the requests issued, the closings and replacements, and for each
\* operation the session its request in flight is on.
FreshClient ==
  [session |-> None, sessions |-> << >>, requests |-> << >>, events |-> << >>,
   inflight |-> [p \in Procs |-> None]]

\* The operations other than p with a request in flight on session s.
UsersOf(k, p, s) ==
  { q \in Procs \ {p} : k.inflight[q] = Some(s) }

\* USGSClient.__aenter__ run by operation p.
AEnter(k, p) ==
  LET n == Len(k.sessions) + 1
  IN  [k EXCEPT !.session = Some(n),
                !.sessions = Append(@, [state |-> "open", opened_by |-> p]),
                !.events = IF k.session = None THEN @
                           ELSE Append(@, [kind |-> "replace", by |-> p,
                                           session |-> k.session[1],
                                           users |-> UsersOf(k, p, k.session[1])])]

\* USGSClient.__aexit__ run by operation p: aclose() of the session the
\* pointer holds; the pointer stays.
AExit(k, p) ==
  IF k.session = None THEN k
  ELSE LET s == k.session[1]
       IN  [k EXCEPT !.sessions[s].state = "closed",
                     !.events = Append(@, [kind |-> "close", by |-> p, session |-> s,
                                           users |-> UsersOf(k, p, s)])]

\* _request_text / _request_json up to `await self._client.get(...)`: the
\* request is in flight when the session is open, and fails at once when it
\* is closed.
Send(k, p, path) ==
  LET s == k.session[1]
      open == k.sessions[s].state = "open"
  IN  [k EXCEPT !.requests = Append(@, [by |-> p, path |-> path, session |-> s, open |-> open]),
                !.inflight[p] = IF open THEN Some(s) ELSE None]

\* The probe loop of _get_available_parameters with n parameters to go: a
\* probe that fails at once is passed over (except Exception: continue).
RECURSIVE Probe(_, _, _)
Probe(k, p, n) ==
  IF n = 0 THEN [k |-> k, left |-> 0]
  ELSE LET sent == Send(k, p, "/iv/")
       IN  IF sent.inflight[p] # None THEN [k |-> sent, left |-> n - 1]
           ELSE Probe(sent, p, n - 1)

\* The connector as the variables hold it.
ClientNow ==
  [session |-> locals.session, sessions |-> locals.sessions, requests |-> calls,
   events |-> results, inflight |-> pending]

\* The variables take the connector k; the registry stays.
ClientBecomes(k) ==
  /\ locals' = [session |-> k.session, sessions |-> k.sessions]
  /\ calls' = k.requests
  /\ results' = k.events
  /\ pending' = k.inflight
  /\ UNCHANGED <<registry, connectors, errors, upstream>>

\* Operation p ends.
Ends(p, result) ==
  /\ pc' = [pc EXCEPT ![p] = "done"]
  /\ outcome' = [outcome EXCEPT ![p] = result]

\* Operation p waits at position at.
Waits(p, at) ==
  /\ pc' = [pc EXCEPT ![p] = at]
  /\ UNCHANGED outcome

\* An operation is called: it runs to its first wait, or to its end when it
\* sends nothing.  dates_ok: fromisoformat accepts the date strings of a data
\* retrieval.  An address search waits for the geocoder inside its scope.
StartOperation(p) ==
  /\ pc[p] = "idle"
  /\ \E name \in ConnectorOperations, dates_ok \in BOOLEAN :
        /\ name \in {"get_precipitation_data", "get_streamflow_data"} \/ dates_ok
        /\ op' = [op EXCEPT ![p] = [name |-> name, dates_ok |-> dates_ok]]
        /\ IF ~dates_ok
           THEN \* _interval_to_period raises before the session scope
                /\ ClientBecomes(ClientNow)
                /\ Ends(p, [kind |-> "raise", exc |-> "ValueError"])
           ELSE IF name = "find_stations_by_address"
           THEN /\ ClientBecomes(AEnter(ClientNow, p))
                /\ Waits(p, "await_geocode")
           ELSE /\ ClientBecomes(Send(AEnter(ClientNow, p), p,
                                      IF name \in {"get_precipitation_data", "get_streamflow_data"}
                                      THEN "/iv/" ELSE "/site/"))
                /\ Waits(p, IF name \in {"get_precipitation_data", "get_streamflow_data"}
                            THEN "await_series" ELSE "await_sites")
  /\ UNCHANGED search

\* The geocoder answers an address search (get_sites_by_address): no
\* location raises inside the scope, a location sends the /site/ request.
Geocoded(p) ==
  /\ pc[p] = "await_geocode"
  /\ \E located \in BOOLEAN :
        IF ~located
        THEN /\ ClientBecomes(AExit(ClientNow, p))
             /\ Ends(p, [kind |-> "raise", exc |-> "DataSourceError"])
        ELSE LET sent == Send(ClientNow, p, "/site/")
             IN  IF sent.inflight[p] # None
                 THEN /\ ClientBecomes(sent)
                      /\ Waits(p, "await_sites")
                 ELSE \* httpx refuses the closed session
                      /\ ClientBecomes(AExit(sent, p))
                      /\ Ends(p, [kind |-> "raise", exc |-> "RuntimeError"])
  /\ UNCHANGED <<op, search>>

\* _get_available_parameters begins: its own `async with client`, and the
\* first probe goes out.
ProbingBegins(k, p) ==
  Probe(AEnter(k, p), p, NumTestParameters)

\* The /iv/ request of a data retrieval is answered or fails: the scope ends.
SeriesAnswered(p) ==
  /\ pc[p] = "await_series"
  /\ \E ok \in BOOLEAN :
        /\ ClientBecomes(AExit([ClientNow EXCEPT !.inflight[p] = None], p))
        /\ Ends(p, IF ok THEN [kind |-> "return"] ELSE [kind |-> "raise", exc |-> "DataSourceError"])
  /\ UNCHANGED <<op, search>>

\* The /site/ request of a search or of get_station_info is answered with
\* found stations, or fails.
SitesAnswered(p) ==
  /\ pc[p] = "await_sites"
  /\ \E ok \in BOOLEAN, found \in 0..MaxFound :
        LET k == [ClientNow EXCEPT !.inflight[p] = None]
        IN  IF ~ok
            THEN /\ found = 0
                 /\ ClientBecomes(AExit(k, p))
                 /\ Ends(p, [kind |-> "raise", exc |-> "DataSourceError"])
                 /\ UNCHANGED search
            ELSE IF op[p].name = "get_station_info"
            THEN IF found = 0
                 THEN /\ ClientBecomes(AExit(k, p))
                      /\ Ends(p, [kind |-> "raise", exc |-> "StationNotFound"])
                      /\ UNCHANGED search
                 ELSE \* the probe runs inside the scope of get_station_info
                      LET b == ProbingBegins(k, p)
                      IN  /\ ClientBecomes(b.k)
                          /\ Waits(p, "await_probe")
                          /\ search' = [search EXCEPT ![p] =
                                          [stations_left |-> 0, probes_left |-> b.left]]
            ELSE IF found = 0
                 THEN /\ ClientBecomes(AExit(k, p))
                      /\ Ends(p, [kind |-> "return"])
                      /\ UNCHANGED search
                 ELSE \* the scope of the search ends, the conversion loop probes
                      LET b == ProbingBegins(AExit(k, p), p)
                      IN  /\ ClientBecomes(b.k)
                          /\ Waits(p, "await_probe")
                          /\ search' = [search EXCEPT ![p] =
                                          [stations_left |-> found - 1, probes_left |-> b.left]]
  /\ UNCHANGED op

\* A probe is answered or fails: the next probe goes out; after the last one
\* the scope of _get_available_parameters ends, and the caller goes on.
ProbeAnswered(p) ==
  /\ pc[p] = "await_probe"
  /\ LET k == [ClientNow EXCEPT !.inflight[p] = None]
         b == Probe(k, p, search[p].probes_left)
     IN  IF b.k.inflight[p] # None
         THEN /\ ClientBecomes(b.k)
              /\ Waits(p, "await_probe")
              /\ search' = [search EXCEPT ![p].probes_left = b.left]
         ELSE IF op[p].name = "get_station_info"
         THEN \* back in get_station_info, whose own scope ends now
              /\ ClientBecomes(AExit(AExit(b.k, p), p))
              /\ Ends(p, [kind |-> "return"])
              /\ search' = [search EXCEPT ![p].probes_left = 0]
         ELSE IF search[p].stations_left = 0
         THEN /\ ClientBecomes(AExit(b.k, p))
              /\ Ends(p, [kind |-> "return"])
              /\ search' = [search EXCEPT ![p].probes_left = 0]
         ELSE LET n == ProbingBegins(AExit(b.k, p), p)
              IN  /\ ClientBecomes(n.k)
                  /\ Waits(p, "await_probe")
                  /\ search' = [search EXCEPT ![p] =
                                  [stations_left |-> @.stations_left - 1, probes_left |-> n.left]]
  /\ UNCHANGED op

\* A USGSConnector(), no operation called yet.
SessionInit ==
  /\ registry = RegistryShipped
  /\ connectors = <<"USGS">>
  /\ errors = EmptyDict
  /\ pc = [p \in Procs |-> "idle"]
  /\ op = [p \in Procs |-> NoOp]
  /\ pending = FreshClient.inflight
  /\ results = FreshClient.events
  /\ search = [p \in Procs |-> [stations_left |-> 0, probes_left |-> 0]]
  /\ calls = FreshClient.requests
  /\ upstream = << >>
  /\ locals = [session |-> FreshClient.session, sessions |-> FreshClient.sessions]
  /\ outcome = [p \in Procs |-> NoOutcome]

SessionNext ==
  \E p \in Procs :
     \/ StartOperation(p)
     \/ Geocoded(p)
     \/ SitesAnswered(p)
     \/ ProbeAnswered(p)
     \/ SeriesAnswered(p)

SessionSpec ==
  SessionInit /\ [][SessionNext]_vars

(***************************************************************************)
(* Properties of the sessions.                                             *)
(***************************************************************************)
\* C27: two operations running at the same time on one connector do not
\* interfere: every request is issued on an open session, and no operation
\* closes or replaces a session on which another operation has a request in
\* flight.
C27_NoInterference ==
  /\ \A i \in 1..Len(calls) : calls[i].open
  /\ \A i \in 1..Len(results) : results[i].users = {}

\* Operation p has ended and no other operation was called meanwhile.
EndedAlone(p) ==
  pc[p] = "done" /\ \A q \in Procs \ {p} : pc[q] = "idle"

\* C28: when an operation has returned or failed, every session it opened
\* is closed, and every request it issued went out on an open session; for
\* get_station_info too, whose parameter probe opens a session inside the
\* operation's own session scope.  (Stated for an operation that ran alone.)
C28_SessionsClosed ==
  \A p \in Procs :
     EndedAlone(p) =>
        /\ \A s \in 1..Len(locals.sessions) :
              locals.sessions[s].opened_by = p => locals.sessions[s].state = "closed"
        /\ \A i \in 1..Len(calls) : calls[i].by = p => calls[i].open

(***************************************************************************)
(* Properties of the connector's measurements.                             *)
(***************************************************************************)
\* A series retrieval of the connector has returned its measurements.
ConnectorSeriesReturned ==
  /\ pc = "done"
  /\ op.name \in {"get_precipitation_data", "get_streamflow_data"}
  /\ op.level = "connector"
  /\ outcome.kind = "return"

\* C29: a reading of zero is preserved end to end: the Measurement the
\* connector returns for a raw upstream value "0" or "0.0" has value 0, and
\* a returned value is null only when the raw value is null, empty or not a
\* number.
C29_ZeroPreserved ==
  ConnectorSeriesReturned =>
     LET raw == SeriesEntries(upstream[1].answer.series)
     IN  /\ Len(outcome.measurements) = Len(raw)
         /\ \A i \in 1..Len(raw) :
               /\ DenotedNumber(raw[i].value) = Some(0) => outcome.measurements[i].value = Some(0)
               /\ outcome.measurements[i].value = None => DenotedNumber(raw[i].value) = None

(***************************************************************************)
(* Properties of the latest-measurement endpoints.                         *)
(***************************************************************************)
\* A latest-measurement endpoint has answered.
LatestEnded ==
  /\ pc = "done"
  /\ op.name \in {"get_latest_streamflow", "get_latest_precipitation"}

\* What the endpoint's fetch of the client came to.
Fetched ==
  calls[Len(calls)].result

\* The status of the endpoint's answer.
StatusAnswered ==
  outcome.status_code

\* The instant of a timestamp on the clock of UTC (a timestamp without an
\* offset read as UTC).
InstantOf(m) ==
  m.timestamp[1].instant

\* C30: a latest-measurement endpoint answers 404 when the fetch returned no
\* measurements, answers 500 only when the fetch failed, and otherwise
\* returns a fetched measurement whose timestamp is the greatest.
C30_LatestEndpoints ==
  LatestEnded =>
     /\ (~Fetched.raised /\ Fetched.measurements = << >>) => StatusAnswered = 404
     /\ StatusAnswered = 500 => Fetched.raised
     /\ (~Fetched.raised /\ Fetched.measurements # << >>) =>
           /\ outcome.kind = "return"
           /\ \E i \in 1..Len(Fetched.measurements) :
                 outcome.latest_measurement = Fetched.measurements[i]
           /\ \A i \in 1..Len(Fetched.measurements) :
                 InstantOf(outcome.latest_measurement) >= InstantOf(Fetched.measurements[i])

====
